---- MODULE Spec2Model ----
(***************************************************************************)
(* A model of libjdb's JDWP client (src/src/jdwp.rs): the connection       *)
(* (handshake, IdSizes negotiation, execute_cmd framing), the wire codec   *)
(* and the object-model accessors built on the generated command           *)
(* functions.  The debuggee JVM is the environment: it puts bytes on the   *)
(* stream, closes it or resets it.                                         *)
(*                                                                         *)
(* Byte strings are sequences of 0..255.  Integers read from the wire are  *)
(* computed from their bytes (big-endian); the byte strings the model's    *)
(* server sends keep every decoded value inside TLC's 32-bit integers.     *)
(***************************************************************************)
EXTENDS Integers, Sequences, FiniteSets, Bags, TLC

VARIABLES
    phase,            \* position of the client: new(), Ready, dropped, failed
    overflow_checks,  \* the build: TRUE = arithmetic overflow panics (debug)
    out,              \* every byte the client has written to the stream
    inp,              \* bytes the server has sent and the client has not read
    peer,             \* "open", "eof" (server closed), "reset" (broken)
    srv_pending,      \* bytes of a segmented server write still to be sent
    next_id,          \* JdwpConnection.next_id
    conn,             \* the five id widths of JdwpConnection
    cur,              \* the execute_cmd call waiting for its reply, or NoCall
    last,             \* locals of the execute_cmd call that returned last
    ret,              \* what the last public operation returned
    hs_buf,           \* new()'s buf: the bytes the handshake read returned
    n_calls,          \* operations invoked on the Ready connection so far
    entities,         \* the live holders of the Rc<JdwpConnection> (a bag)
    codec             \* a value under encoding and decoding

vars == <<phase, overflow_checks, out, inp, peer, srv_pending, next_id, conn,
          cur, last, ret, hs_buf, n_calls, entities, codec>>

----------------------------------------------------------------------------
\* Bounds of the model.

\* Operations a caller invokes on a connection after new() returned.
MaxCalls == 2

\* Entries in a line table the server returns.
MaxLines == 3

\* Operations invoked on the entities of one virtual machine object.
MaxEntityCalls == 3

\* Entities alive when an operation that makes another one starts.
MaxEntities == 3

\* Characters between the 'L' and the ';' of a class signature.
MaxSigLen == 3

\* Entries in a list of methods the server returns.
MaxMethods == 2

\* Characters of a string that is encoded and decoded.
MaxStrChars == 2

\* Calls made on a connection whose counter is near its last value.
MaxLateCalls == 3

\* Operations invoked on the entities of every kind a caller holds.
MaxAccesses == 2

----------------------------------------------------------------------------
\* Program constants.

\* Size of the request and of the reply header.
HeaderSize == 11

\* Size of the buffer of the handshake read.
HandshakeBufSize == 128

\* b"JDWP-Handshake"
HandshakeToken == <<74, 68, 87, 80, 45, 72, 97, 110, 100, 115, 104, 97, 107, 101>>

----------------------------------------------------------------------------
\* Byte strings.

Take(s, n) == SubSeq(s, 1, n)
Drop(s, n) == SubSeq(s, n + 1, Len(s))

Min(a, b) == IF a < b THEN a ELSE b

\* byteorder write_uN::<BigEndian>: the low 8*n bits of v, most significant
\* byte first (two's complement for a negative v).
RECURSIVE BigEndian(_, _)
BigEndian(v, n) ==
    IF n = 0 THEN <<>> ELSE Append(BigEndian(v \div 256, n - 1), v % 256)

\* byteorder read_uN::<BigEndian>: the unsigned value of the bytes.
RECURSIVE Unsigned(_)
Unsigned(bs) ==
    IF bs = <<>> THEN 0
    ELSE Unsigned(Take(bs, Len(bs) - 1)) * 256 + bs[Len(bs)]

\* byteorder read_iN::<BigEndian>: the two's complement value of the bytes.
RECURSIVE Signed(_)
Signed(bs) ==
    IF Len(bs) = 1 THEN (IF bs[1] >= 128 THEN bs[1] - 256 ELSE bs[1])
    ELSE Signed(Take(bs, Len(bs) - 1)) * 256 + bs[Len(bs)]

\* A u32 read from the wire, kept in TLC's 32-bit integers: v below 2^31 is
\* v, and v from 2^31 on is v - 2^32 (negative).
U32(bs) == Signed(bs)

\* a < b for two u32 kept that way.
U32Less(a, b) ==
    IF (a < 0) = (b < 0) THEN a < b ELSE b < 0

----------------------------------------------------------------------------
\* Serialize.

Ser_u8(v) == BigEndian(v, 1)
Ser_u16_littleEndian(v) == <<v % 256, v \div 256>>
Ser_u16(v) == BigEndian(v, 2)
Ser_u32(v) == BigEndian(v, 4)
Ser_i32(v) == BigEndian(v, 4)
Ser_u64(v) == BigEndian(v, 8)

\* &str: the number of UTF-8 bytes as u32, then the bytes.  A string of the
\* model is the sequence of its UTF-8 bytes.
Ser_str(s) == BigEndian(Len(s), 4) \o s

----------------------------------------------------------------------------
\* Deserialize.  A decoder takes the unread bytes of the cursor and returns
\* [st, kind, val, rest]: st is "Ok", "Err" (an io::Error: kind "Io" for
\* UnexpectedEof, "Protocol" for one made by protocol_err) or "Panic".

DeOk(v, rest) == [st |-> "Ok", kind |-> "", val |-> v, rest |-> rest]
DeErr == [st |-> "Err", kind |-> "Io", val |-> 0, rest |-> <<>>]
DeProtocolErr == [st |-> "Err", kind |-> "Protocol", val |-> 0, rest |-> <<>>]
DePanic == [st |-> "Panic", kind |-> "", val |-> 0, rest |-> <<>>]

\* The reads of byteorder fail with UnexpectedEof on a short cursor.
De_unsigned_zeroFilled(bs, n) ==
    IF Len(bs) < n THEN DeOk(0, <<>>) ELSE DeOk(Unsigned(Take(bs, n)), Drop(bs, n))
De_unsigned(bs, n) ==
    IF Len(bs) < n THEN DeErr ELSE DeOk(Unsigned(Take(bs, n)), Drop(bs, n))
De_signed(bs, n) ==
    IF Len(bs) < n THEN DeErr ELSE DeOk(Signed(Take(bs, n)), Drop(bs, n))

De_u8(bs) == De_unsigned(bs, 1)
De_u16(bs) == De_unsigned(bs, 2)
De_u32(bs) == De_unsigned(bs, 4)
De_i32(bs) == De_signed(bs, 4)
De_u64(bs) == De_unsigned(bs, 8)
De_i64(bs) == De_signed(bs, 8)

\* std::str::from_utf8: whether the bytes are well-formed UTF-8.
Continuation(b) == b >= 128 /\ b <= 191

RECURSIVE ValidUtf8(_)
ValidUtf8(bs) ==
    IF bs = <<>> THEN TRUE
    ELSE LET b == bs[1]
         IN  IF b <= 127 THEN ValidUtf8(Tail(bs))
             ELSE IF b >= 194 /\ b <= 223
                  THEN /\ Len(bs) >= 2 /\ Continuation(bs[2])
                       /\ ValidUtf8(Drop(bs, 2))
             ELSE IF b >= 224 /\ b <= 239
                  THEN /\ Len(bs) >= 3
                       /\ Continuation(bs[2]) /\ Continuation(bs[3])
                       /\ b = 224 => bs[2] >= 160
                       /\ b = 237 => bs[2] <= 159
                       /\ ValidUtf8(Drop(bs, 3))
             ELSE IF b >= 240 /\ b <= 244
                  THEN /\ Len(bs) >= 4
                       /\ Continuation(bs[2]) /\ Continuation(bs[3])
                       /\ Continuation(bs[4])
                       /\ b = 240 => bs[2] >= 144
                       /\ b = 244 => bs[2] <= 143
                       /\ ValidUtf8(Drop(bs, 4))
             ELSE FALSE

\* String: a u32 length, that many bytes, then String::from_utf8(buf).unwrap().
\* A cursor of this model never holds 2^31 bytes: read_exact of that many
\* finds too few.
De_String(bs) ==
    LET n == IF Len(bs) < 4 THEN DeErr ELSE DeOk(U32(Take(bs, 4)), Drop(bs, 4))
    IN  IF n.st # "Ok" THEN n
        ELSE IF n.val < 0 \/ Len(n.rest) < n.val THEN DeErr
        ELSE IF ~ValidUtf8(Take(n.rest, n.val)) THEN DePanic
        ELSE DeOk(Take(n.rest, n.val), Drop(n.rest, n.val))

\* TypeTag: FromPrimitive::from_u8 of the byte, or a protocol error.
TypeTags == <<"Class", "Interface", "Array">>

De_TypeTag_defaultClass(bs) ==
    LET t == De_u8(bs)
    IN  IF t.st # "Ok" THEN t
        ELSE IF t.val \in DOMAIN TypeTags THEN DeOk(TypeTags[t.val], t.rest)
        ELSE DeOk(TypeTags[1], t.rest)
De_TypeTag(bs) ==
    LET t == De_u8(bs)
    IN  IF t.st # "Ok" THEN t
        ELSE IF t.val \in DOMAIN TypeTags THEN DeOk(TypeTags[t.val], t.rest)
        ELSE DeProtocolErr

\* The fields of the records of the wire format, in declared order:
\* <<name, type>>.
Fields(T) ==
    CASE T = "IdSizesReply" ->
             <<<<"field_id_size", "i32">>, <<"method_id_size", "i32">>,
               <<"object_id_size", "i32">>, <<"reference_type_id_size", "i32">>,
               <<"frame_id_size", "i32">>>>
      [] T = "LineTableEntry" ->
             <<<<"line_code_index", "i64">>, <<"line_number", "u32">>>>
      [] T = "LineTableReply" ->
             <<<<"start", "i64">>, <<"end", "i64">>,
               <<"lines", "Vec<LineTableEntry>">>>>
      [] T = "Location" ->
             <<<<"type_tag", "TypeTag">>, <<"class_id", "u64">>,
               <<"method_id", "u64">>, <<"location_idx", "u64">>>>
      [] T = "Frame" -> <<<<"frame_id", "u64">>, <<"location", "Location">>>>
      [] T = "Field" ->
             <<<<"field_id", "u64">>, <<"name", "String">>,
               <<"signature", "String">>, <<"mod_bits", "i32">>>>
      [] T = "Method" ->
             <<<<"method_id", "u64">>, <<"name", "String">>,
               <<"signature", "String">>, <<"mod_bits", "i32">>>>
      [] T = "AllThreadsReply" -> <<<<"threads", "Vec<u64>">>>>
      [] T = "SignatureReply" -> <<<<"signature", "String">>>>
      [] T = "FieldsReply" -> <<<<"fields", "Vec<Field>">>>>
      [] T = "MethodReply" -> <<<<"methods", "Vec<Method>">>>>
      [] T = "ReferenceTypeReply" ->
             <<<<"type_tag", "TypeTag">>, <<"type_id", "u64">>>>
      [] T = "NameReply" -> <<<<"name", "String">>>>
      [] T = "FramesReply" -> <<<<"frames", "Vec<Frame>">>>>
      [] T = "VersionReply" ->
             <<<<"description", "String">>, <<"jdwp_major", "i32">>,
               <<"jdwp_minor", "i32">>, <<"vm_version", "String">>,
               <<"vm_name", "String">>>>
      [] T = "ClassesBySignatureReply" ->
             <<<<"classes", "Vec<ClassesBySignatureReplyClass>">>>>
      [] T = "ClassesBySignatureReplyClass" ->
             <<<<"ref_type_tag", "u8">>, <<"type_id", "u64">>,
               <<"status", "u32">>>>
      [] T = "AllClassesReply" -> <<<<"classes", "Vec<AllClassesReplyClass>">>>>
      [] T = "AllClassesReplyClass" ->
             <<<<"ref_type_tag", "u8">>, <<"type_id", "u64">>,
               <<"signature", "String">>, <<"status", "u32">>>>
      [] T \in {"SuspendReply", "ResumeReply", "ExitReply"} -> <<>>

\* The element type of each Vec<T> of the wire format ("" for another type).
ElemOf(T) ==
    CASE T = "Vec<LineTableEntry>" -> "LineTableEntry"
      [] T = "Vec<u64>" -> "u64"
      [] T = "Vec<Frame>" -> "Frame"
      [] T = "Vec<Field>" -> "Field"
      [] T = "Vec<Method>" -> "Method"
      [] T = "Vec<ClassesBySignatureReplyClass>" -> "ClassesBySignatureReplyClass"
      [] T = "Vec<AllClassesReplyClass>" -> "AllClassesReplyClass"
      [] OTHER -> ""

RECURSIVE De(_, _)
RECURSIVE De_Fields(_, _, _)
RECURSIVE De_Elems(_, _, _, _)

\* A record: its fields are read in declared order, each `?` returning the
\* first failure.
De_Fields(fs, bs, acc) ==
    IF fs = <<>> THEN DeOk(acc, bs)
    ELSE LET d == De(fs[1][2], bs)
         IN  IF d.st # "Ok" THEN d
             ELSE De_Fields(Tail(fs), d.rest, acc @@ (fs[1][1] :> d.val))

\* The loop of Vec<T>::deserialize: count elements are read; the range
\* 0..count is empty when count <= 0.
De_Elems(T, bs, count, acc) ==
    IF count <= 0 THEN DeOk(acc, bs)
    ELSE LET e == De(T, bs)
         IN  IF e.st # "Ok" THEN e
             ELSE De_Elems(T, e.rest, count - 1, Append(acc, e.val))

\* Vec<T>: an i32 count, then the elements.
De_Vec_countNotConsumed(T, bs) ==
    LET c == De_i32(bs)
    IN  IF c.st # "Ok" THEN c ELSE De_Elems(T, bs, c.val, <<>>)
De_Vec(T, bs) ==
    LET c == De_i32(bs)
    IN  IF c.st # "Ok" THEN c ELSE De_Elems(T, c.rest, c.val, <<>>)

\* T::deserialize.
De(T, bs) ==
    CASE T = "u8" -> De_u8(bs)
      [] T = "u16" -> De_u16(bs)
      [] T = "u32" -> De_u32(bs)
      [] T = "i32" -> De_i32(bs)
      [] T = "u64" -> De_u64(bs)
      [] T = "i64" -> De_i64(bs)
      [] T = "String" -> De_String(bs)
      [] T = "TypeTag" -> De_TypeTag(bs)
      [] ElemOf(T) # "" -> De_Vec(ElemOf(T), bs)
      [] OTHER -> De_Fields(Fields(T), bs, <<>>)

De_IdSizesReply(bs) == De("IdSizesReply", bs)
De_LineTableEntry(bs) == De("LineTableEntry", bs)
De_LineTableReply(bs) == De("LineTableReply", bs)
De_Location(bs) == De("Location", bs)

----------------------------------------------------------------------------
\* The command table of command_set!: command function -> <<set_id, command_id>>.

Commands_suspendResumeSwapped ==
    [version |-> <<1, 1>>, classes_by_signature |-> <<1, 2>>,
     all_classes |-> <<1, 3>>, exit |-> <<1, 10>>,
     all_threads |-> <<1, 4>>, id_sizes |-> <<1, 7>>, suspend |-> <<1, 9>>,
     resume |-> <<1, 8>>, signature |-> <<2, 1>>, fields |-> <<2, 4>>,
     methods |-> <<2, 5>>, line_table |-> <<6, 1>>,
     reference_type |-> <<9, 1>>, name |-> <<11, 1>>, frames |-> <<11, 6>>]
Commands ==
    [version |-> <<1, 1>>, classes_by_signature |-> <<1, 2>>,
     all_classes |-> <<1, 3>>, all_threads |-> <<1, 4>>,
     id_sizes |-> <<1, 7>>, suspend |-> <<1, 8>>, resume |-> <<1, 9>>,
     exit |-> <<1, 10>>, signature |-> <<2, 1>>, fields |-> <<2, 4>>,
     methods |-> <<2, 5>>, line_table |-> <<6, 1>>,
     reference_type |-> <<9, 1>>, name |-> <<11, 1>>, frames |-> <<11, 6>>]

\* The response record of each command function.
ReplyOf ==
    [version |-> "VersionReply",
     classes_by_signature |-> "ClassesBySignatureReply",
     all_classes |-> "AllClassesReply", exit |-> "ExitReply",
     all_threads |-> "AllThreadsReply", id_sizes |-> "IdSizesReply",
     suspend |-> "SuspendReply", resume |-> "ResumeReply",
     signature |-> "SignatureReply", fields |-> "FieldsReply",
     methods |-> "MethodReply", line_table |-> "LineTableReply",
     reference_type |-> "ReferenceTypeReply", name |-> "NameReply",
     frames |-> "FramesReply"]

\* The decoder of a command function's response record.
Deserialize(cmd, bs) == De(ReplyOf[cmd], bs)

----------------------------------------------------------------------------
\* execute_cmd.

\* The correlation id of the request after the one with id `id`: `id + 1` on
\* u32, which wraps from 2^32 - 1 to 0 in a build without overflow checks.
\* An id from 2^31 on is kept as U32 keeps it.
NextId_reuse(id) == id
NextId(id) ==
    IF id = -1 THEN 0
    ELSE IF id = 2147483647 THEN -2147483647 - 1
    ELSE id + 1

\* `id + 1` panics in a build with overflow checks when id is 2^32 - 1.
IdOverflows(id, checks) == checks /\ id = -1

\* The length field of a request with `n` payload bytes.
FrameLen(n) == n + HeaderSize

\* The six writes of execute_cmd, in order.
RequestFrame_twice(id, command_set, command, data) ==
    Ser_u32(FrameLen(Len(data))) \o Ser_u32(id) \o Ser_u8(0)
        \o Ser_u8(command_set) \o Ser_u8(command) \o data
        \o Ser_u32(FrameLen(Len(data))) \o Ser_u32(id) \o Ser_u8(0)
        \o Ser_u8(command_set) \o Ser_u8(command) \o data
RequestFrame_setCmdSwapped(id, command_set, command, data) ==
    Ser_u32(FrameLen(Len(data))) \o Ser_u32(id) \o Ser_u8(0)
        \o Ser_u8(command) \o Ser_u8(command_set) \o data
RequestFrame(id, command_set, command, data) ==
    Ser_u32(FrameLen(Len(data))) \o Ser_u32(id) \o Ser_u8(0)
        \o Ser_u8(command_set) \o Ser_u8(command) \o data

\* The bytes of a request frame on the stream when one of execute_cmd's six
\* writes fails after the ones before it: the length, the id, the flags, the
\* command set and the command are one write each; write_all of no data
\* writes nothing and cannot fail.  At 0 the first write fails.
WriteCuts(data) ==
    {0, 4, 8, 9, 10} \cup (IF data = <<>> THEN {} ELSE {HeaderSize})

\* The result of execute_cmd's reads and the locals it read.  st is "Ok",
\* "Err", "Panic", or "Short" when the stream holds too few bytes for the
\* next read.
Exec(st, kind, code, buf, rest, id, flags) ==
    [st |-> st, kind |-> kind, code |-> code, buf |-> buf, rest |-> rest,
     reply_id |-> id, flags |-> flags]

ExecShort == Exec("Short", "", 0, <<>>, <<>>, 0, 0)
ExecIoErr(rest) == Exec("Err", "Io", 0, <<>>, rest, 0, 0)
ExecPanic(rest) == Exec("Panic", "", 0, <<>>, rest, 0, 0)

\* The reads of execute_cmd on the bytes `stream`.  `length - 11` is a u32
\* subtraction: below 11 it panics in a build with overflow checks and wraps
\* to at least 2^32 - 11 in one without.  The stream of this model never
\* holds 2^31 bytes: read_exact of that many finds too few.
ReadReply_lengthIsPayload(stream, checks) ==
    IF Len(stream) < 4 THEN ExecShort
    ELSE LET length == U32(Take(stream, 4))
             underflow == U32Less(length, HeaderSize)
         IN  IF underflow /\ checks THEN ExecPanic(Drop(stream, 4))
             ELSE IF Len(stream) < HeaderSize THEN ExecShort
             ELSE LET id == U32(SubSeq(stream, 5, 8))
                      flags == stream[9]
                      error_code == Unsigned(SubSeq(stream, 10, 11))
                  IN  IF error_code # 0
                      THEN Exec("Err", "ErrorCode", error_code, <<>>,
                                Drop(stream, HeaderSize), id, flags)
                      ELSE IF underflow \/ length < 0 THEN ExecShort
                      ELSE IF Len(stream) < length + HeaderSize THEN ExecShort
                      ELSE Exec("Ok", "", 0,
                                SubSeq(stream, HeaderSize + 1,
                                       length + HeaderSize),
                                Drop(stream, length + HeaderSize), id, flags)
ReadReply(stream, checks) ==
    IF Len(stream) < 4 THEN ExecShort
    ELSE LET length == U32(Take(stream, 4))
             underflow == U32Less(length, HeaderSize)
         IN  IF underflow /\ checks THEN ExecPanic(Drop(stream, 4))
             ELSE IF Len(stream) < HeaderSize THEN ExecShort
             ELSE LET id == U32(SubSeq(stream, 5, 8))
                      flags == stream[9]
                      error_code == Unsigned(SubSeq(stream, 10, 11))
                  IN  IF error_code # 0
                      THEN Exec("Err", "ErrorCode", error_code, <<>>,
                                Drop(stream, HeaderSize), id, flags)
                      ELSE IF underflow \/ length < 0 THEN ExecShort
                      ELSE IF Len(stream) < length THEN ExecShort
                      ELSE Exec("Ok", "", 0,
                                SubSeq(stream, HeaderSize + 1, length),
                                Drop(stream, length), id, flags)

\* The same on a live stream: the reads take the bytes that have arrived,
\* also after the server closed or reset the connection.  A read that lacks
\* bytes blocks ("Short") while the connection is open; once it is closed
\* or reset the read takes the bytes left and fails (UnexpectedEof,
\* ConnectionReset).
ExecuteCmdRead(stream, p, checks) ==
    LET r == ReadReply(stream, checks)
    IN  IF r.st = "Short" /\ p # "open" THEN ExecIoErr(<<>>) ELSE r

\* The generated command function after execute_cmd returned `e`: the `?`
\* returns an error as it is, and only an Ok buffer reaches the decoder.
CommandReply_decodeFirst(cmd, e) ==
    LET d == Deserialize(cmd, e.buf)
    IN  [st |-> IF e.st = "Ok" THEN d.st ELSE e.st,
         kind |-> IF e.st = "Ok" THEN d.kind ELSE e.kind,
         code |-> e.code, val |-> IF e.st = "Ok" THEN d.val ELSE <<>>,
         decoded |-> TRUE]
CommandReply(cmd, e) ==
    IF e.st # "Ok"
    THEN [st |-> e.st, kind |-> e.kind, code |-> e.code, val |-> <<>>,
          decoded |-> FALSE]
    ELSE LET d == Deserialize(cmd, e.buf)
         IN  [st |-> d.st, kind |-> d.kind,
              code |-> 0, val |-> d.val, decoded |-> TRUE]

----------------------------------------------------------------------------
\* The entities of the object model.  Each holds a clone of the
\* Rc<JdwpConnection> and the ids it was made from.
NoLocation ==
    [type_tag |-> "", class_id |-> 0, method_id |-> 0, location_idx |-> 0]

\* The connection as new() returns it: the caller owns it until
\* JdwpJavaVirtualMachine::new takes it.
JdwpConnection ==
    [kind |-> "conn", id |-> 0, class_id |-> 0, location |-> NoLocation,
     name |-> <<>>]
JdwpJavaVirtualMachine ==
    [kind |-> "vm", id |-> 0, class_id |-> 0, location |-> NoLocation,
     name |-> <<>>]
JdwpThreadReference(thread_id) ==
    [JdwpJavaVirtualMachine EXCEPT !.kind = "thread", !.id = thread_id]
JdwpStackFrame(frame) ==
    [JdwpJavaVirtualMachine EXCEPT !.kind = "frame", !.id = frame.frame_id,
                                   !.location = frame.location]
JdwpLocation(location) ==
    [JdwpJavaVirtualMachine EXCEPT !.kind = "location", !.location = location]
JdwpReferenceType(class_id) ==
    [JdwpJavaVirtualMachine EXCEPT !.kind = "reference_type",
                                   !.class_id = class_id]
JdwpMethod(method_id, class_id) ==
    [JdwpJavaVirtualMachine EXCEPT !.kind = "method", !.id = method_id,
                                   !.class_id = class_id]
JdwpField(field_id, class_id, name) ==
    [JdwpJavaVirtualMachine EXCEPT !.kind = "field", !.id = field_id,
                                   !.class_id = class_id, !.name = name]

----------------------------------------------------------------------------
\* JdwpLocation::line_number.

\* `line_code_index as u64 > location_idx`: a negative i64 casts to a value
\* of at least 2^63, above every location_idx of this model.
CodeIndexAfter(line_code_index, location_idx) ==
    IF line_code_index < 0 THEN TRUE ELSE line_code_index > location_idx

\* The for loop: entries in reply order, break at the first one after
\* location_idx.
RECURSIVE BestLine(_, _, _)
BestLine(lines, location_idx, best_line) ==
    IF lines = <<>> THEN best_line
    ELSE IF CodeIndexAfter(lines[1].line_code_index, location_idx)
         THEN best_line
         ELSE BestLine(Tail(lines), location_idx, lines[1].line_number)

\* Results of the public operations: st is "Ok", "Err" or "Panic"; val is
\* <<>> for None and for (), <<v>> for Some(v).
Ret(op, st, val) == [op |-> op, st |-> st, val |-> val]

line_number_errIsErr(reply, location_idx) ==
    IF reply.st = "Panic" THEN Ret("line_number", "Panic", <<>>)
    ELSE IF reply.st = "Err" THEN Ret("line_number", "Err", <<>>)
    ELSE IF reply.val.start = -1 \/ reply.val.end = -1
         THEN Ret("line_number", "Ok", <<>>)
    ELSE IF reply.val.lines = <<>> THEN Ret("line_number", "Panic", <<>>)
    ELSE Ret("line_number", "Ok",
             <<BestLine(reply.val.lines, location_idx,
                        reply.val.lines[1].line_number)>>)
line_number_noNativeCheck(reply, location_idx) ==
    IF reply.st = "Panic" THEN Ret("line_number", "Panic", <<>>)
    ELSE IF reply.st = "Err" THEN Ret("line_number", "Ok", <<>>)
    ELSE IF reply.val.lines = <<>> THEN Ret("line_number", "Panic", <<>>)
    ELSE Ret("line_number", "Ok",
             <<BestLine(reply.val.lines, location_idx,
                        reply.val.lines[1].line_number)>>)
line_number(reply, location_idx) ==
    IF reply.st = "Panic" THEN Ret("line_number", "Panic", <<>>)
    ELSE IF reply.st = "Err" THEN Ret("line_number", "Ok", <<>>)
    ELSE IF reply.val.start = -1 \/ reply.val.end = -1
         THEN Ret("line_number", "Ok", <<>>)
    ELSE IF reply.val.lines = <<>> THEN Ret("line_number", "Panic", <<>>)
    ELSE Ret("line_number", "Ok",
             <<BestLine(reply.val.lines, location_idx,
                        reply.val.lines[1].line_number)>>)

\* A generated command function: the response record or the error.
CommandResult(cmd, reply) ==
    IF reply.st = "Ok" THEN Ret(cmd, "Ok", <<reply.val>>)
    ELSE Ret(cmd, reply.st, <<>>)

\* JdwpJavaVirtualMachine::suspend and resume.
UnitResult(op, reply) ==
    IF reply.st = "Ok" THEN Ret(op, "Ok", <<>>) ELSE Ret(op, reply.st, <<>>)

\* str::trim_start_matches(ch) and trim_end_matches(ch): the pattern is
\* removed as often as it matches.
RECURSIVE TrimStartMatches(_, _)
TrimStartMatches(s, ch) ==
    IF s # <<>> /\ s[1] = ch THEN TrimStartMatches(Tail(s), ch) ELSE s

RECURSIVE TrimEndMatches(_, _)
TrimEndMatches(s, ch) ==
    IF s # <<>> /\ s[Len(s)] = ch
    THEN TrimEndMatches(Take(s, Len(s) - 1), ch) ELSE s

\* str::replace of one ASCII character by another.
Replace(s, from, to) == [i \in 1..Len(s) |-> IF s[i] = from THEN to ELSE s[i]]

\* JdwpReferenceType::name: 'L' is 76, ';' is 59, '/' is 47, '.' is 46.
ClassName(class_sig) ==
    Replace(TrimEndMatches(TrimStartMatches(class_sig, 76), 59), 47, 46)

ReferenceType_name(reply) ==
    IF reply.st = "Ok" THEN Ret("name", "Ok", <<ClassName(reply.val.signature)>>)
    ELSE Ret("name", reply.st, <<>>)

\* JdwpThreadReference::name.
ThreadReference_name(reply) ==
    IF reply.st = "Ok" THEN Ret("thread_name", "Ok", <<reply.val.name>>)
    ELSE Ret("thread_name", reply.st, <<>>)

\* The loop of JdwpMethod::name: <<name>> of the first entry with the
\* method's id, <<>> when the loop ends without one.
RECURSIVE FindMethod(_, _)
FindMethod_first(methods, method_id) ==
    IF methods = <<>> THEN <<>> ELSE <<methods[1].name>>
FindMethod(methods, method_id) ==
    IF methods = <<>> THEN <<>>
    ELSE IF methods[1].method_id = method_id THEN <<methods[1].name>>
    ELSE FindMethod(Tail(methods), method_id)

\* JdwpMethod::name: the error after the loop is made by protocol_err.
Method_name(reply, method_id) ==
    IF reply.st # "Ok" THEN Ret("method_name", reply.st, <<>>)
    ELSE IF FindMethod(reply.val.methods, method_id) = <<>>
         THEN Ret("method_name", "Err", <<>>)
    ELSE Ret("method_name", "Ok", FindMethod(reply.val.methods, method_id))

\* JdwpJavaVirtualMachine::all_threads: one thread reference per id.
all_threads(reply) ==
    IF reply.st # "Ok" THEN Ret("all_threads", reply.st, <<>>)
    ELSE Ret("all_threads", "Ok",
             <<[i \in DOMAIN reply.val.threads |->
                   JdwpThreadReference(reply.val.threads[i])]>>)

\* JdwpThreadReference::frames: one stack frame per frame of the reply.
frames(reply) ==
    IF reply.st # "Ok" THEN Ret("frames", reply.st, <<>>)
    ELSE Ret("frames", "Ok",
             <<[i \in DOMAIN reply.val.frames |->
                   JdwpStackFrame(reply.val.frames[i])]>>)

\* JdwpThreadReference::reference_type.
reference_type(reply) ==
    IF reply.st # "Ok" THEN Ret("reference_type", reply.st, <<>>)
    ELSE Ret("reference_type", "Ok", <<JdwpReferenceType(reply.val.type_id)>>)

\* JdwpReferenceType::fields: one field per entry of the reply.
fields(reply, class_id) ==
    IF reply.st # "Ok" THEN Ret("fields", reply.st, <<>>)
    ELSE Ret("fields", "Ok",
             <<[i \in DOMAIN reply.val.fields |->
                   JdwpField(reply.val.fields[i].field_id, class_id,
                             reply.val.fields[i].name)]>>)

----------------------------------------------------------------------------
\* The debuggee: what the server of this model may put on the stream.

\* Answers to the handshake: the token, a different string of the same
\* length, a shorter and a longer one.
HandshakeReplies ==
    {HandshakeToken,
     [HandshakeToken EXCEPT ![14] = 102],
     Take(HandshakeToken, 13),
     HandshakeToken \o <<0>>}

\* A server write may reach the client in two segments: the cut points.
SegmentCuts(msg) == {4, Len(msg)}

\* The cut points of a reply: inside the header, before the last byte, none.
ReplyCuts(msg) == {6, Len(msg) - 1, Len(msg)}

\* A reply frame as the server writes it.
ReplyFrame(length, id, flags, error_code, payload) ==
    BigEndian(length, 4) \o BigEndian(id, 4) \o <<flags>>
        \o BigEndian(error_code, 2) \o payload

IdSizesPayload(sizes) ==
    BigEndian(sizes[1], 4) \o BigEndian(sizes[2], 4) \o BigEndian(sizes[3], 4)
        \o BigEndian(sizes[4], 4) \o BigEndian(sizes[5], 4)

RECURSIVE LineEntriesPayload(_)
LineEntriesPayload(lines) ==
    IF lines = <<>> THEN <<>>
    ELSE BigEndian(lines[1][1], 8) \o BigEndian(lines[1][2], 4)
             \o LineEntriesPayload(Tail(lines))

\* A line table <<start, end, <<code index, line>>, ...>> on the wire.
LineTablePayload(start, end, lines) ==
    BigEndian(start, 8) \o BigEndian(end, 8) \o BigEndian(Len(lines), 4)
        \o LineEntriesPayload(lines)

\* A string, a sequence with a count field, a location, a frame and a method
\* or field entry on the wire.
StringPayload(str) == BigEndian(Len(str), 4) \o str

RECURSIVE Concat(_)
Concat(ps) == IF ps = <<>> THEN <<>> ELSE ps[1] \o Concat(Tail(ps))

VecPayload(count, elems) == BigEndian(count, 4) \o Concat(elems)

LocationPayload(tag, class_id, method_id, location_idx) ==
    <<tag>> \o BigEndian(class_id, 8) \o BigEndian(method_id, 8)
        \o BigEndian(location_idx, 8)

FramePayload(frame_id, location) == BigEndian(frame_id, 8) \o location

MemberPayload(id, name, signature, mod_bits) ==
    BigEndian(id, 8) \o StringPayload(name) \o StringPayload(signature)
        \o BigEndian(mod_bits, 4)

\* "Ljava/lang/Thread;", "main", "run", "()V", "x", "I", "a"
Str_Thread ==
    <<76, 106, 97, 118, 97, 47, 108, 97, 110, 103, 47, 84, 104, 114, 101, 97,
      100, 59>>
Str_main == <<109, 97, 105, 110>>
Str_run == <<114, 117, 110>>
Str_V == <<40, 41, 86>>
Str_x == <<120>>
Str_I == <<73>>
Str_a == <<97>>

\* Reply payloads of the server for each command.
Payloads(cmd) ==
    CASE cmd = "id_sizes" ->
             {IdSizesPayload(<<8, 8, 8, 8, 8>>),
              IdSizesPayload(<<1, 2, 3, 4, 5>>),
              IdSizesPayload(<<8, 8, 256, 8, 8>>),
              Take(IdSizesPayload(<<8, 8, 8, 8, 8>>), 18)}
      [] cmd = "line_table" ->
             {LineTablePayload(0, 100, <<<<0, 10>>, <<50, 20>>, <<90, 30>>>>),
              LineTablePayload(0, 100, <<<<50, 20>>, <<0, 10>>>>),
              LineTablePayload(0, 100, <<>>),
              LineTablePayload(-1, -1, <<>>)}
      [] cmd = "all_threads" ->
             {VecPayload(0, <<>>), VecPayload(1, <<BigEndian(5, 8)>>)}
      [] cmd = "frames" ->
             {VecPayload(1, <<FramePayload(1, LocationPayload(1, 3, 7, 5))>>),
              VecPayload(2, <<FramePayload(1, LocationPayload(1, 3, 7, 5)),
                              FramePayload(2, LocationPayload(2, 4, 8, 0))>>)}
      [] cmd = "reference_type" ->
             {<<1>> \o BigEndian(3, 8)}
      [] cmd = "signature" -> {StringPayload(Str_Thread)}
      [] cmd = "name" -> {StringPayload(Str_main)}
      [] cmd = "fields" ->
             {VecPayload(1, <<MemberPayload(1, Str_x, Str_I, 0)>>)}
      [] cmd = "methods" ->
             {VecPayload(1, <<MemberPayload(7, Str_run, Str_V, 1)>>),
              VecPayload(2, <<MemberPayload(8, Str_a, Str_V, 1),
                              MemberPayload(7, Str_run, Str_V, 1)>>)}
      [] cmd = "version" ->
             {StringPayload(Str_x) \o BigEndian(1, 4) \o BigEndian(8, 4)
                  \o StringPayload(Str_I) \o StringPayload(Str_a)}
      [] cmd = "classes_by_signature" ->
             {VecPayload(1, <<<<1>> \o BigEndian(3, 8) \o BigEndian(7, 4)>>)}
      [] cmd = "all_classes" ->
             {VecPayload(1, <<<<1>> \o BigEndian(3, 8)
                                  \o StringPayload(Str_Thread)
                                  \o BigEndian(7, 4)>>)}
      [] OTHER -> {<<>>}

\* JDWP error codes the server answers with: ILLEGAL_ARGUMENT, NATIVE_METHOD.
ErrorCodes == {35, 511}

\* The frames the server may send in answer to the request `c`: a well-formed
\* reply, an error reply without and with a body, a reply with another id,
\* a frame without the reply flag, a frame with a length below the header's.
ReplyFrames(c) ==
    LET some == CHOOSE p \in Payloads(c.cmd) : \A q \in Payloads(c.cmd) : Len(q) <= Len(p)
    IN  {ReplyFrame(HeaderSize + Len(p), c.id, 128, 0, p) : p \in Payloads(c.cmd)}
        \cup {ReplyFrame(HeaderSize, c.id, 128, e, <<>>) : e \in ErrorCodes}
        \cup {ReplyFrame(HeaderSize + 2, c.id, 128, 35, <<0, 0>>),
              ReplyFrame(HeaderSize + Len(some), c.id + 1, 128, 0, some),
              ReplyFrame(HeaderSize + Len(some), c.id, 0, 0, some),
              ReplyFrame(5, c.id, 128, 0, <<>>)}

----------------------------------------------------------------------------
\* State.

NoCall == [cmd |-> "none", op |-> "none", id |-> 0, data |-> <<>>,
           start |-> 0, location_idx |-> 0, replied |-> FALSE,
           recv |-> JdwpJavaVirtualMachine]

NoExec == [cmd |-> "none", req_id |-> 0, location_idx |-> 0, st |-> "None",
           kind |-> "", code |-> 0, buf |-> <<>>, reply_id |-> 0, flags |-> 0,
           consumed |-> <<>>, decoded |-> FALSE, reply_st |-> "None",
           recv |-> JdwpJavaVirtualMachine]

NoRet == Ret("none", "None", <<>>)

NoCodec == [type |-> "none", step |-> "none", x |-> 0, bytes |-> <<>>,
            st |-> "None", y |-> 0, rest |-> <<>>]

\* The fields of JdwpConnection before id_sizes has filled them in.
ZeroSizes ==
    [field_id_size |-> 0, method_id_size |-> 0, object_id_size |-> 0,
     reference_type_id_size |-> 0, frame_id_size |-> 0]

\* The locations the caller holds: one method of one class, at these
\* byte-code indexes.
Method == [class_id |-> 3, method_id |-> 7]
LocationIdxs == {5, 60}

\* The operations of the virtual machine object a caller invokes on the
\* Ready connection.
Ops == {"suspend", "resume"}

\* The command functions a caller invokes on the connection it owns, and the
\* arguments it passes: no argument, a signature, an exit code.
CommandArgs ==
    [version |-> {<<>>}, classes_by_signature |-> {Str_Thread},
     all_classes |-> {<<>>}, exit |-> {0, -1}]

\* The arguments of a command function, each serialized in declared order.
SerializeArgs(cmd, arg) ==
    CASE cmd = "classes_by_signature" -> Ser_str(arg)
      [] cmd = "exit" -> Ser_i32(arg)
      [] OTHER -> <<>>

\* The public operations that call a command function, and the entity each
\* is a method of.
KindOf ==
    [all_threads |-> "vm", suspend |-> "vm", resume |-> "vm",
     thread_name |-> "thread", frames |-> "thread", reference_type |-> "thread",
     line_number |-> "location", name |-> "reference_type",
     fields |-> "reference_type", method_name |-> "method"]

\* The command function behind the public operation `op`.
CmdOf(op) ==
    CASE op = "line_number" -> "line_table"
      [] op = "thread_name" -> "name"
      [] op = "name" -> "signature"
      [] op = "method_name" -> "methods"
      [] OTHER -> op

\* The serialized arguments of the command function behind `op`, invoked on
\* the entity `recv`.
ArgsOf_negotiatedWidths(op, recv) ==
    CASE op = "line_number" ->
             BigEndian(recv.location.class_id, conn.reference_type_id_size)
                 \o BigEndian(recv.location.method_id, conn.method_id_size)
      [] op \in {"thread_name", "reference_type"} ->
             BigEndian(recv.id, conn.object_id_size)
      [] op = "frames" ->
             BigEndian(recv.id, conn.object_id_size) \o Ser_i32(0) \o Ser_i32(-1)
      [] op \in {"name", "fields", "method_name"} ->
             BigEndian(recv.class_id, conn.reference_type_id_size)
      [] OTHER -> <<>>
ArgsOf_lengthFirst(op, recv) ==
    CASE op = "line_number" ->
             Ser_u64(recv.location.class_id) \o Ser_u64(recv.location.method_id)
      [] op \in {"thread_name", "reference_type"} -> Ser_u64(recv.id)
      [] op = "frames" -> Ser_u64(recv.id) \o Ser_i32(-1) \o Ser_i32(0)
      [] op \in {"name", "fields", "method_name"} -> Ser_u64(recv.class_id)
      [] OTHER -> <<>>
ArgsOf(op, recv) ==
    CASE op = "line_number" ->
             Ser_u64(recv.location.class_id) \o Ser_u64(recv.location.method_id)
      [] op \in {"thread_name", "reference_type"} -> Ser_u64(recv.id)
      [] op = "frames" -> Ser_u64(recv.id) \o Ser_i32(0) \o Ser_i32(-1)
      [] op \in {"name", "fields", "method_name"} -> Ser_u64(recv.class_id)
      [] OTHER -> <<>>

\* The call of `op` on `recv` with correlation id `id`, its frame written
\* after `start` bytes.
CallOf(op, recv, id, start, replied) ==
    [cmd |-> CmdOf(op), op |-> op, id |-> id, data |-> ArgsOf(op, recv),
     start |-> start, location_idx |-> recv.location.location_idx,
     replied |-> replied, recv |-> recv]

\* The record of a call that returned: the request, what execute_cmd read
\* from the `stream` it found and returned, whether the command function
\* ran the decoder, and what the command function returned.
LastOf(c, stream, e, reply) ==
    [cmd |-> c.cmd, req_id |-> c.id, location_idx |-> c.location_idx,
     st |-> e.st, kind |-> e.kind, code |-> e.code, buf |-> e.buf,
     reply_id |-> e.reply_id, flags |-> e.flags,
     consumed |-> Take(stream, Len(stream) - Len(e.rest)),
     decoded |-> reply.decoded, reply_st |-> reply.st, recv |-> c.recv]

\* The value the public operation `c.op` makes of the command's reply.
ResultOf(c, reply) ==
    CASE c.op \in DOMAIN CommandArgs -> CommandResult(c.op, reply)
      [] c.op = "line_number" -> line_number(reply, c.location_idx)
      [] c.op = "name" -> ReferenceType_name(reply)
      [] c.op = "method_name" -> Method_name(reply, c.recv.id)
      [] c.op = "thread_name" -> ThreadReference_name(reply)
      [] c.op = "all_threads" -> all_threads(reply)
      [] c.op = "frames" -> frames(reply)
      [] c.op = "reference_type" -> reference_type(reply)
      [] c.op = "fields" -> fields(reply, c.recv.class_id)
      [] OTHER -> UnitResult(c.op, reply)

\* The entities a returned operation has handed to the caller, as a bag.
RECURSIVE BagOfSeq(_)
BagOfSeq(es) ==
    IF es = <<>> THEN EmptyBag ELSE SetToBag({es[1]}) (+) BagOfSeq(Tail(es))

Created(r) ==
    IF r.st # "Ok" THEN EmptyBag
    ELSE IF r.op \in {"all_threads", "frames", "fields"} THEN BagOfSeq(r.val[1])
    ELSE IF r.op \in {"reference_type", "location", "method", "declaring_type"}
         THEN SetToBag({r.val[1]})
    ELSE EmptyBag

Init ==
    /\ phase = "Disconnected"
    /\ overflow_checks \in BOOLEAN
    /\ out = <<>>
    /\ inp = <<>>
    /\ peer = "open"
    /\ srv_pending = <<>>
    /\ next_id = 0
    /\ conn = ZeroSizes
    /\ cur = NoCall
    /\ last = NoExec
    /\ ret = NoRet
    /\ hs_buf = <<>>
    /\ n_calls = 0
    /\ entities = EmptyBag
    /\ codec = NoCodec

----------------------------------------------------------------------------
\* JdwpConnection::new.

\* TcpStream::connect and the write of the handshake token.
NewConnect ==
    /\ phase = "Disconnected"
    /\ phase' = "Handshaking"
    /\ out' = out \o HandshakeToken
    /\ UNCHANGED <<overflow_checks, inp, peer, srv_pending, next_id, conn, cur,
                   last, ret, hs_buf, n_calls, entities, codec>>

\* connect or the write of the handshake fails: new returns the error.
NewConnectFails ==
    /\ phase = "Disconnected"
    /\ phase' = "Failed"
    /\ UNCHANGED <<overflow_checks, out, inp, peer, srv_pending, next_id, conn,
                   cur, last, ret, hs_buf, n_calls, entities, codec>>

\* The one read of the handshake (whatever has arrived, at most 128 bytes;
\* nothing at end of stream), then the connection is built and id_sizes
\* writes its request.  On a reset connection the read returns the bytes
\* that arrived before the reset and the first write of the request fails;
\* with no byte to return the read itself fails.
HandshakeRead ==
    /\ phase = "Handshaking"
    /\ inp # <<>> \/ peer # "open"
    /\ LET n == Min(Len(inp), HandshakeBufSize)
           id == next_id
           c == [NoCall EXCEPT !.cmd = "id_sizes", !.op = "new",
                               !.id = id, !.start = Len(out)]
           e == ExecIoErr(Drop(inp, n))
       IN  IF peer = "reset" /\ inp = <<>>
           THEN /\ phase' = "Failed"
                /\ UNCHANGED <<out, inp, next_id, cur, last, hs_buf>>
           ELSE IF peer = "reset"
           THEN /\ inp' = Drop(inp, n)
                /\ next_id' = NextId(id)
                /\ last' = LastOf(c, Drop(inp, n), e, CommandReply("id_sizes", e))
                /\ phase' = "Failed"
                /\ UNCHANGED <<out, cur, hs_buf>>
           ELSE /\ hs_buf' = Take(inp, n)
                /\ inp' = Drop(inp, n)
                /\ next_id' = NextId(id)
                /\ out' = out \o RequestFrame(id, Commands["id_sizes"][1],
                                              Commands["id_sizes"][2], <<>>)
                /\ cur' = c
                /\ phase' = "Negotiating"
                /\ UNCHANGED last
    /\ UNCHANGED <<overflow_checks, peer, srv_pending, conn, ret, n_calls,
                   entities, codec>>

\* The same, and the connection breaks after the read, before or between
\* the writes of id_sizes' request: execute_cmd returns the error of the
\* write and new returns it.
HandshakeReadWriteFails ==
    /\ phase = "Handshaking"
    /\ inp # <<>> \/ peer = "eof"
    /\ peer # "reset"
    /\ LET n == Min(Len(inp), HandshakeBufSize)
           c == [NoCall EXCEPT !.cmd = "id_sizes", !.op = "new",
                               !.id = next_id, !.start = Len(out)]
           e == ExecIoErr(Drop(inp, n))
       IN  /\ inp' = Drop(inp, n)
           /\ next_id' = NextId(next_id)
           /\ \E k \in WriteCuts(<<>>) :
                  out' = out \o Take(RequestFrame(c.id, Commands["id_sizes"][1],
                                                  Commands["id_sizes"][2], <<>>), k)
           /\ last' = LastOf(c, Drop(inp, n), e, CommandReply("id_sizes", e))
    /\ peer' = "reset"
    /\ srv_pending' = <<>>
    /\ phase' = "Failed"
    /\ UNCHANGED <<overflow_checks, conn, cur, ret, hs_buf, n_calls, entities,
                   codec>>
\* i32 -> u8 by try_into().unwrap(): panics outside 0..255.
FitsU8(v) == v >= 0 /\ v <= 255

\* The five widths new() stores, from the decoded reply.
StoredSizes_swapped(r) ==
    [field_id_size |-> r.method_id_size, method_id_size |-> r.field_id_size,
     object_id_size |-> r.object_id_size,
     reference_type_id_size |-> r.reference_type_id_size,
     frame_id_size |-> r.frame_id_size]
StoredSizes(r) ==
    [field_id_size |-> r.field_id_size, method_id_size |-> r.method_id_size,
     object_id_size |-> r.object_id_size,
     reference_type_id_size |-> r.reference_type_id_size,
     frame_id_size |-> r.frame_id_size]

\* How new() ends on the reply of id_sizes: `?` returns an error, unwrap
\* panics on a width that is no u8, else the connection is returned.
NewResult_ignoreError(reply) ==
    IF reply.st = "Panic" THEN "Aborted" ELSE "Ready"
NewResult(reply) ==
    IF reply.st = "Panic" THEN "Aborted"
    ELSE IF reply.st = "Err" THEN "Failed"
    ELSE IF \E f \in DOMAIN reply.val : ~FitsU8(reply.val[f]) THEN "Aborted"
    ELSE "Ready"

\* id_sizes reads its reply; new() stores the widths and returns.
IdSizesReturn ==
    /\ phase = "Negotiating"
    /\ LET e == ExecuteCmdRead(inp, peer, overflow_checks)
           reply == CommandReply("id_sizes", e)
       IN  /\ e.st # "Short"
           /\ inp' = e.rest
           /\ last' = LastOf(cur, inp, e, reply)
           /\ cur' = NoCall
           /\ hs_buf' = <<>>
           /\ phase' = NewResult(reply)
           /\ conn' = IF NewResult(reply) = "Ready" /\ reply.st = "Ok"
                      THEN StoredSizes(reply.val) ELSE conn
           /\ entities' = IF NewResult(reply) = "Ready"
                          THEN SetToBag({JdwpConnection}) ELSE entities
    /\ UNCHANGED <<overflow_checks, out, peer, srv_pending, next_id, ret, n_calls,
                   codec>>

----------------------------------------------------------------------------
\* Operations on the Ready connection.

\* Whether a caller may enter execute_cmd: the connection and every entity
\* hold it through Rc and RefCell, so all callers are one thread, and that
\* thread is inside at most one call.
MayInvoke_unserialized(c) == TRUE
MayInvoke(c) == c = NoCall

\* The call `c` enters execute_cmd, which takes the next id and writes the
\* request frame.  On a reset connection the first write fails and the
\* operation returns at once.  A panic ends the program and with it every
\* holder of the connection.
ExecuteCmdWrite(c) ==
    /\ phase = "Ready"
    /\ MayInvoke(cur)
    /\ n_calls' = n_calls + 1
    /\ IF IdOverflows(next_id, overflow_checks)
       THEN /\ phase' = "Aborted"
            /\ ret' = Ret(c.op, "Panic", <<>>)
            /\ entities' = EmptyBag
            /\ UNCHANGED <<next_id, out, cur, last>>
       ELSE IF peer = "reset"
       THEN LET e == ExecIoErr(inp)
                reply == CommandReply(c.cmd, e)
            IN  /\ next_id' = NextId(next_id)
                /\ last' = LastOf(c, inp, e, reply)
                /\ ret' = ResultOf(c, reply)
                /\ UNCHANGED <<phase, out, cur, entities>>
       ELSE /\ next_id' = NextId(next_id)
            /\ out' = out \o RequestFrame(c.id, Commands[c.cmd][1],
                                          Commands[c.cmd][2], c.data)
            /\ cur' = c
            /\ UNCHANGED <<phase, last, ret, entities>>
    /\ UNCHANGED <<overflow_checks, inp, peer, srv_pending, conn, hs_buf, codec>>

\* The same while the connection breaks: the peer's reset lands between two
\* writes of execute_cmd, the next write fails and the operation returns
\* the error with a part of the frame written.
ExecuteCmdWriteFails(c) ==
    /\ phase = "Ready"
    /\ MayInvoke(cur)
    /\ peer # "reset"
    /\ ~IdOverflows(next_id, overflow_checks)
    /\ n_calls' = n_calls + 1
    /\ next_id' = NextId(next_id)
    /\ \E k \in WriteCuts(c.data) :
           out' = out \o Take(RequestFrame(c.id, Commands[c.cmd][1],
                                           Commands[c.cmd][2], c.data), k)
    /\ peer' = "reset"
    /\ srv_pending' = <<>>
    /\ LET e == ExecIoErr(inp)
           reply == CommandReply(c.cmd, e)
       IN  /\ last' = LastOf(c, inp, e, reply)
           /\ ret' = ResultOf(c, reply)
    /\ UNCHANGED <<phase, overflow_checks, inp, conn, cur, hs_buf, entities,
                   codec>>

\* A public operation is invoked on an entity the caller holds.
Invoke(op, recv) ==
    /\ BagIn(recv, entities)
    /\ KindOf[op] = recv.kind
    /\ ExecuteCmdWrite(CallOf(op, recv, next_id, Len(out), FALSE))

\* The same, and the connection breaks while the request is written.
InvokeFails(op, recv) ==
    /\ BagIn(recv, entities)
    /\ KindOf[op] = recv.kind
    /\ ExecuteCmdWriteFails(CallOf(op, recv, next_id, Len(out), FALSE))

\* The call of the generated command function `cmd` with the argument `arg`
\* on the connection the caller owns.
CommandCall(cmd, arg) ==
    [CallOf(cmd, JdwpConnection, next_id, Len(out), FALSE)
         EXCEPT !.data = SerializeArgs(cmd, arg)]

\* A generated command function is called on the connection new() returned.
Command(cmd, arg) ==
    /\ BagIn(JdwpConnection, entities)
    /\ ExecuteCmdWrite(CommandCall(cmd, arg))

\* The same, and the connection breaks while the request is written.
CommandFails(cmd, arg) ==
    /\ BagIn(JdwpConnection, entities)
    /\ ExecuteCmdWriteFails(CommandCall(cmd, arg))

\* JdwpJavaVirtualMachine::new: the connection moves into the virtual
\* machine object.
NewVirtualMachine ==
    /\ phase = "Ready"
    /\ cur = NoCall
    /\ BagIn(JdwpConnection, entities)
    /\ entities' = (entities (-) SetToBag({JdwpConnection}))
                       (+) SetToBag({JdwpJavaVirtualMachine})
    /\ UNCHANGED <<phase, overflow_checks, out, inp, peer, srv_pending, next_id,
                   conn, cur, last, ret, hs_buf, n_calls, codec>>

\* execute_cmd reads the reply, the command function decodes it and the
\* public operation returns.
Return ==
    /\ phase = "Ready"
    /\ cur # NoCall
    /\ LET e == ExecuteCmdRead(inp, peer, overflow_checks)
           reply == CommandReply(cur.cmd, e)
           r == ResultOf(cur, reply)
       IN  /\ e.st # "Short"
           /\ inp' = e.rest
           /\ last' = LastOf(cur, inp, e, reply)
           /\ ret' = r
           /\ entities' = IF r.st = "Panic" THEN EmptyBag
                          ELSE entities (+) Created(r)
           /\ phase' = IF r.st = "Panic" THEN "Aborted" ELSE phase
    /\ cur' = NoCall
    /\ UNCHANGED <<overflow_checks, out, peer, srv_pending, next_id, conn, hs_buf,
                   n_calls, codec>>

\* The virtual machine and every entity are dropped: the stream is closed.
DropConnection ==
    /\ phase = "Ready"
    /\ cur = NoCall
    /\ phase' = "Closed"
    /\ entities' = EmptyBag
    /\ UNCHANGED <<overflow_checks, out, inp, peer, srv_pending, next_id, conn,
                   cur, last, ret, hs_buf, n_calls, codec>>

----------------------------------------------------------------------------
\* The server.

Live == phase \in {"Handshaking", "Negotiating", "Ready"}

\* The server answers the handshake, in one segment or in two.
ServerHandshake ==
    /\ phase = "Handshaking"
    /\ peer = "open"
    /\ inp = <<>> /\ srv_pending = <<>>
    /\ \E msg \in HandshakeReplies : \E k \in SegmentCuts(msg) :
           /\ inp' = Take(msg, k)
           /\ srv_pending' = Drop(msg, k)
    /\ UNCHANGED <<phase, overflow_checks, out, peer, next_id, conn, cur, last,
                   ret, hs_buf, n_calls, entities, codec>>

\* The second segment arrives.
ServerFlush ==
    /\ Live
    /\ peer = "open"
    /\ srv_pending # <<>>
    /\ inp' = inp \o srv_pending
    /\ srv_pending' = <<>>
    /\ UNCHANGED <<phase, overflow_checks, out, peer, next_id, conn, cur, last,
                   ret, hs_buf, n_calls, entities, codec>>

\* The server answers the outstanding request, in one segment or in two.
ServerReply ==
    /\ Live
    /\ peer = "open"
    /\ cur # NoCall /\ ~cur.replied
    /\ srv_pending = <<>>
    /\ \E f \in ReplyFrames(cur) : \E k \in ReplyCuts(f) :
           /\ inp' = inp \o Take(f, k)
           /\ srv_pending' = Drop(f, k)
    /\ cur' = [cur EXCEPT !.replied = TRUE]
    /\ UNCHANGED <<phase, overflow_checks, out, peer, next_id, conn,
                   last, ret, hs_buf, n_calls, entities, codec>>

\* The server closes the stream: reads reach end of stream.
ServerClose ==
    /\ Live
    /\ peer = "open"
    /\ peer' = "eof"
    /\ srv_pending' = <<>>
    /\ UNCHANGED <<phase, overflow_checks, out, inp, next_id, conn, cur, last,
                   ret, hs_buf, n_calls, entities, codec>>

\* The connection breaks: every later write fails, and every read once the
\* bytes that arrived before are taken.
ServerReset ==
    /\ Live
    /\ peer # "reset"
    /\ peer' = "reset"
    /\ srv_pending' = <<>>
    /\ UNCHANGED <<phase, overflow_checks, out, inp, next_id, conn, cur, last,
                   ret, hs_buf, n_calls, entities, codec>>

Next ==
    \/ NewConnect
    \/ NewConnectFails
    \/ HandshakeRead
    \/ HandshakeReadWriteFails
    \/ IdSizesReturn
    \/ NewVirtualMachine
    \/ \E op \in Ops : n_calls < MaxCalls /\ Invoke(op, JdwpJavaVirtualMachine)
    \/ \E op \in Ops :
           n_calls < MaxCalls /\ InvokeFails(op, JdwpJavaVirtualMachine)
    \/ \E cmd \in DOMAIN CommandArgs : \E arg \in CommandArgs[cmd] :
           n_calls < MaxCalls /\ Command(cmd, arg)
    \/ \E cmd \in DOMAIN CommandArgs : \E arg \in CommandArgs[cmd] :
           n_calls < MaxCalls /\ CommandFails(cmd, arg)
    \/ Return
    \/ DropConnection
    \/ ServerHandshake
    \/ ServerFlush
    \/ ServerReply
    \/ ServerClose
    \/ ServerReset

Spec == Init /\ [][Next]_vars

----------------------------------------------------------------------------
\* The object model: a Ready connection wrapped in the virtual machine
\* object; every entity made from it holds the connection, and each holder
\* is dropped on its own.

\* The operations whose result holds new entities.
MakerOps == {"all_threads", "frames", "reference_type", "fields"}

\* The accessors that make an entity without a request, and the entity each
\* is a method of.
LocalKindOf ==
    [location |-> "frame", method |-> "location", declaring_type |-> "location",
     field_name |-> "field", unique_id |-> "thread",
     can_be_modified |-> "vm", get_value |-> "reference_type"]

\* JdwpStackFrame::location, JdwpLocation::method and declaring_type,
\* JdwpField::name and JdwpThreadReference::unique_id;
\* JdwpJavaVirtualMachine::can_be_modified returns true, and
\* JdwpReferenceType::get_value is unimplemented!(), which panics.
LocalResult(op, e) ==
    CASE op = "field_name" -> Ret(op, "Ok", <<e.name>>)
      [] op = "can_be_modified" -> Ret(op, "Ok", <<TRUE>>)
      [] op = "get_value" -> Ret(op, "Panic", <<>>)
      [] op = "unique_id" -> Ret(op, "Ok", <<e.id>>)
      [] op = "location" -> Ret(op, "Ok", <<JdwpLocation(e.location)>>)
      [] op = "method" ->
             Ret(op, "Ok", <<JdwpMethod(e.location.method_id,
                                        e.location.class_id)>>)
      [] op = "declaring_type" ->
             Ret(op, "Ok", <<JdwpReferenceType(e.location.class_id)>>)

\* The stream after a holder was dropped and `remaining` are left: the
\* JdwpConnection and its TcpStream are dropped with the last Rc.
StreamAfterDrop_any(remaining) == "Closed"
StreamAfterDrop(remaining) ==
    IF remaining = EmptyBag THEN "Closed" ELSE "Ready"

EightByteSizes == IdSizesPayload(<<8, 8, 8, 8, 8>>)

\* attach_live has returned the virtual machine object.
InitEntities ==
    /\ phase = "Ready"
    /\ overflow_checks \in BOOLEAN
    /\ out = HandshakeToken
                 \o RequestFrame(0, Commands["id_sizes"][1],
                                 Commands["id_sizes"][2], <<>>)
    /\ inp = <<>>
    /\ peer = "open"
    /\ srv_pending = <<>>
    /\ next_id = 1
    /\ conn = StoredSizes(De_IdSizesReply(EightByteSizes).val)
    /\ cur = NoCall
    /\ last = [NoExec EXCEPT !.cmd = "id_sizes", !.st = "Ok",
                             !.buf = EightByteSizes, !.flags = 128,
                             !.consumed = ReplyFrame(HeaderSize + 20, 0, 128, 0,
                                                     EightByteSizes),
                             !.decoded = TRUE, !.reply_st = "Ok"]
    /\ ret = NoRet
    /\ hs_buf = <<>>
    /\ n_calls = 0
    /\ entities = SetToBag({JdwpJavaVirtualMachine})
    /\ codec = NoCodec

\* An operation that calls a command function is invoked on a live entity.
InvokeOn(e, op) ==
    /\ BagIn(e, entities)
    /\ KindOf[op] = e.kind
    /\ n_calls < MaxEntityCalls
    /\ BagCardinality(entities) < MaxEntities
    /\ Invoke(op, e)

\* An accessor without a request returns what the live entity holds; the
\* entity it may return holds the connection as well.  get_value takes a
\* field the caller holds; its panic ends the program and every holder.
Accessor_roundTrip(e, op) ==
    /\ phase = "Ready"
    /\ cur = NoCall
    /\ BagIn(e, entities)
    /\ LocalKindOf[op] = e.kind
    /\ op = "get_value" => \E f \in BagToSet(entities) : f.kind = "field"
    /\ ret' = LocalResult(op, e)
    /\ phase' = IF LocalResult(op, e).st = "Panic" THEN "Aborted" ELSE phase
    /\ entities' = IF LocalResult(op, e).st = "Panic" THEN EmptyBag
                   ELSE entities (+) Created(LocalResult(op, e))
    /\ out' = out \o RequestFrame(next_id, Commands["name"][1],
                                  Commands["name"][2], Ser_u64(e.id))
    /\ next_id' = NextId(next_id)
    /\ UNCHANGED <<overflow_checks, inp, peer, srv_pending,
                   conn, cur, last, hs_buf, n_calls, codec>>
Accessor(e, op) ==
    /\ phase = "Ready"
    /\ cur = NoCall
    /\ BagIn(e, entities)
    /\ LocalKindOf[op] = e.kind
    /\ op = "get_value" => \E f \in BagToSet(entities) : f.kind = "field"
    /\ ret' = LocalResult(op, e)
    /\ phase' = IF LocalResult(op, e).st = "Panic" THEN "Aborted" ELSE phase
    /\ entities' = IF LocalResult(op, e).st = "Panic" THEN EmptyBag
                   ELSE entities (+) Created(LocalResult(op, e))
    /\ UNCHANGED <<overflow_checks, out, inp, peer, srv_pending, next_id,
                   conn, cur, last, hs_buf, n_calls, codec>>

\* An accessor is called while few entities are alive.
Derive(e, op) ==
    /\ BagCardinality(entities) < MaxEntities
    /\ Accessor(e, op)

\* The caller drops one holder.
DropEntity(e) ==
    /\ phase = "Ready"
    /\ cur = NoCall
    /\ BagIn(e, entities)
    /\ entities' = entities (-) SetToBag({e})
    /\ phase' = StreamAfterDrop(entities')
    /\ UNCHANGED <<overflow_checks, out, inp, peer, srv_pending, next_id, conn,
                   cur, last, ret, hs_buf, n_calls, codec>>

\* The server answers the outstanding request with a well-formed reply or
\* with an error code.
AnswerFrames(c) ==
    {ReplyFrame(HeaderSize + Len(p), c.id, 128, 0, p) : p \in Payloads(c.cmd)}
        \cup {ReplyFrame(HeaderSize, c.id, 128, 35, <<>>)}

ServerAnswers ==
    /\ phase = "Ready"
    /\ peer = "open"
    /\ cur # NoCall /\ ~cur.replied
    /\ \E f \in AnswerFrames(cur) : inp' = inp \o f
    /\ cur' = [cur EXCEPT !.replied = TRUE]
    /\ UNCHANGED <<phase, overflow_checks, out, peer, srv_pending, next_id, conn,
                   last, ret, hs_buf, n_calls, entities, codec>>

NextEntities ==
    \/ \E e \in BagToSet(entities) : \E op \in MakerOps : InvokeOn(e, op)
    \/ \E e \in BagToSet(entities) : \E op \in DOMAIN LocalKindOf : Derive(e, op)
    \/ \E e \in BagToSet(entities) : DropEntity(e)
    \/ ServerAnswers
    \/ Return

SpecEntities == InitEntities /\ [][NextEntities]_vars

----------------------------------------------------------------------------
\* The operations on a reference type, a method and a thread on every reply
\* of a bounded family: the entity was obtained by earlier calls, and one
\* call on it waits for the reply that has arrived.

HeldLocation ==
    [type_tag |-> "Class", class_id |-> 3, method_id |-> 7, location_idx |-> 5]
HeldThread == JdwpThreadReference(5)
HeldFrame == JdwpStackFrame([frame_id |-> 1, location |-> HeldLocation])

ReplyOps == {"name", "method_name", "reference_type", "frames"}

\* The entity `op` is invoked on.
ReplyReceiver(op) ==
    CASE op = "name" -> JdwpReferenceType(3)
      [] op = "method_name" -> JdwpMethod(7, 3)
      [] OTHER -> HeldThread

\* The calls that returned before: <<operation, entity, reply payload>>.
PriorCalls(op) ==
    LET threads == <<"all_threads", JdwpJavaVirtualMachine,
                     VecPayload(1, <<BigEndian(5, 8)>>)>>
    IN  CASE op = "name" ->
                 <<threads,
                   <<"reference_type", HeldThread, <<1>> \o BigEndian(3, 8)>>>>
          [] op = "method_name" ->
                 <<threads,
                   <<"frames", HeldThread,
                     VecPayload(1, <<FramePayload(1, LocationPayload(1, 3, 7, 5))>>)>>>>
          [] OTHER -> <<threads>>

\* The entities alive when `op` is invoked.
HeldEntities(op) ==
    CASE op = "name" ->
             SetToBag({JdwpJavaVirtualMachine, HeldThread, JdwpReferenceType(3)})
      [] op = "method_name" ->
             SetToBag({JdwpJavaVirtualMachine, HeldThread, HeldFrame,
                       JdwpLocation(HeldLocation), JdwpMethod(7, 3)})
      [] OTHER -> SetToBag({JdwpJavaVirtualMachine, HeldThread})

\* The request frames of the calls `calls`, the first with id `id`.
RECURSIVE PriorFrames(_, _)
PriorFrames(calls, id) ==
    IF calls = <<>> THEN <<>>
    ELSE RequestFrame(id, Commands[CmdOf(calls[1][1])][1],
                      Commands[CmdOf(calls[1][1])][2],
                      ArgsOf(calls[1][1], calls[1][2]))
             \o PriorFrames(Tail(calls), id + 1)

\* Class signatures "L" body ";" and other strings of a signature reply.
SigChars == {76, 59, 47, 97}
SigBodies == UNION {[1..k -> SigChars] : k \in 0..MaxSigLen}
Signatures == {<<76>> \o b \o <<59>> : b \in SigBodies} \cup {Str_Thread}

\* Byte strings that are not UTF-8: a byte that starts no character, a
\* character cut short, an overlong encoding.
InvalidUtf8 == {<<76, 255, 59>>, <<76, 97, 195>>, <<192, 128>>}

\* Lists of methods <<method id, name>>.
MethodEntries == {<<7, Str_run>>, <<8, Str_a>>, <<9, Str_x>>}
MethodLists == UNION {[1..k -> MethodEntries] : k \in 0..MaxMethods}

MethodsPayload(count, ms) ==
    VecPayload(count,
               [i \in DOMAIN ms |-> MemberPayload(ms[i][1], ms[i][2], Str_V, 1)])

\* Every proper prefix of a payload.
Truncations(p) == {Take(p, k) : k \in 0..(Len(p) - 1)}

\* Well-formed payloads whose prefixes the server sends as well.
FullPayloads(cmd) ==
    CASE cmd = "signature" -> {StringPayload(Str_Thread)}
      [] cmd = "methods" ->
             {MethodsPayload(2, <<<<8, Str_a>>, <<7, Str_run>>>>)}
      [] cmd = "reference_type" -> {<<1>> \o BigEndian(3, 8)}
      [] cmd = "frames" ->
             {VecPayload(1, <<FramePayload(1, LocationPayload(2, 3, 7, 5))>>)}

TruncatedPayloads(cmd) == UNION {Truncations(p) : p \in FullPayloads(cmd)}

\* The payloads of the replies to each command.
ReplyPayloads(cmd) ==
    TruncatedPayloads(cmd) \cup
    CASE cmd = "signature" ->
             {StringPayload(g) : g \in Signatures \cup InvalidUtf8}
      [] cmd = "methods" ->
             {MethodsPayload(Len(ms), ms) : ms \in MethodLists}
                 \cup {MethodsPayload(-1, <<>>),
                       MethodsPayload(-1, <<<<7, Str_run>>>>)}
      [] cmd = "reference_type" -> {<<t>> \o BigEndian(3, 8) : t \in 0..255}
      [] cmd = "frames" ->
             {VecPayload(1, <<FramePayload(1, LocationPayload(t, 3, 7, 5))>>) :
                  t \in {0, 1, 2, 3, 4, 255}}
                 \cup {VecPayload(-1, <<>>)}

InitReply ==
    /\ phase = "Ready"
    /\ overflow_checks \in BOOLEAN
    /\ peer = "open"
    /\ srv_pending = <<>>
    /\ conn = StoredSizes(De_IdSizesReply(EightByteSizes).val)
    /\ hs_buf = <<>>
    /\ codec = NoCodec
    /\ \E op \in ReplyOps :
           LET prior == PriorCalls(op)
               k == Len(prior)
               sent == HandshakeToken
                           \o RequestFrame(0, Commands["id_sizes"][1],
                                           Commands["id_sizes"][2], <<>>)
                           \o PriorFrames(prior, 1)
               before == HandshakeToken
                             \o RequestFrame(0, Commands["id_sizes"][1],
                                             Commands["id_sizes"][2], <<>>)
                             \o PriorFrames(Take(prior, k - 1), 1)
               c == CallOf(prior[k][1], prior[k][2], k, Len(before), TRUE)
               frame == ReplyFrame(HeaderSize + Len(prior[k][3]), k, 128, 0,
                                   prior[k][3])
               e == ReadReply(frame, overflow_checks)
               reply == CommandReply(c.cmd, e)
           IN  /\ next_id = k + 2
               /\ n_calls = k + 1
               /\ entities = HeldEntities(op)
               /\ last = LastOf(c, frame, e, reply)
               /\ ret = IF op = "method_name"
                        THEN LocalResult("method", JdwpLocation(HeldLocation))
                        ELSE ResultOf(c, reply)
               /\ cur = CallOf(op, ReplyReceiver(op), k + 1, Len(sent), TRUE)
               /\ out = sent \o RequestFrame(k + 1, Commands[cur.cmd][1],
                                             Commands[cur.cmd][2], cur.data)
               /\ \E p \in ReplyPayloads(cur.cmd) :
                      inp = ReplyFrame(HeaderSize + Len(p), k + 1, 128, 0, p)

NextReply == Return

SpecReply == InitReply /\ [][NextReply]_vars

----------------------------------------------------------------------------
\* Location.line_number on every line table of a bounded family: the caller
\* obtained the location by all_threads, frames and location, and one
\* line_number call on it waits for the reply that has arrived, on an open
\* or on a broken connection.

LineEntries == {<<0, 10>>, <<50, 20>>, <<90, 30>>}

LineTables == UNION {[1..k -> LineEntries] : k \in 0..MaxLines}

\* start and end of a line table: a Java method's and a native method's.
LineBounds == {<<0, 100>>, <<-1, -1>>, <<-1, 100>>, <<0, -1>>}

\* The calls that returned before line_number is invoked on the location
\* of a frame at the byte-code index `idx`: <<operation, entity, reply
\* payload>>.
LinePrior(idx) ==
    <<<<"all_threads", JdwpJavaVirtualMachine, VecPayload(1, <<BigEndian(5, 8)>>)>>,
      <<"frames", HeldThread,
        VecPayload(1, <<FramePayload(1, LocationPayload(1, Method.class_id,
                                                         Method.method_id,
                                                         idx))>>)>>>>

\* The replies to the line-table request with id `id`: every line table of
\* the family, a body cut short, and the error codes.
LineReplies(id) ==
    LET tables == {LineTablePayload(b[1], b[2], t) :
                       b \in LineBounds, t \in LineTables}
    IN  {ReplyFrame(HeaderSize + Len(p), id, 128, 0, p) : p \in tables}
            \cup {ReplyFrame(HeaderSize + 18, id, 128, 0,
                             Take(LineTablePayload(0, 100, <<>>), 18))}
            \cup {ReplyFrame(HeaderSize, id, 128, e, <<>>) : e \in ErrorCodes}

InitLine ==
    /\ phase = "Ready"
    /\ overflow_checks \in BOOLEAN
    /\ peer \in {"open", "reset"}
    /\ srv_pending = <<>>
    /\ conn = StoredSizes(De_IdSizesReply(EightByteSizes).val)
    /\ hs_buf = <<>>
    /\ codec = NoCodec
    /\ \E idx \in LocationIdxs :
           LET location == [type_tag |-> "Class", class_id |-> Method.class_id,
                            method_id |-> Method.method_id,
                            location_idx |-> idx]
               held == JdwpStackFrame([frame_id |-> 1, location |-> location])
               prior == LinePrior(idx)
               k == Len(prior)
               new == HandshakeToken
                          \o RequestFrame(0, Commands["id_sizes"][1],
                                          Commands["id_sizes"][2], <<>>)
               before == new \o PriorFrames(Take(prior, k - 1), 1)
               sent == new \o PriorFrames(prior, 1)
               c == CallOf(prior[k][1], prior[k][2], k, Len(before), TRUE)
               frame == ReplyFrame(HeaderSize + Len(prior[k][3]), k, 128, 0,
                                   prior[k][3])
               e == ReadReply(frame, overflow_checks)
               reply == CommandReply(c.cmd, e)
           IN  /\ next_id = k + 2
               /\ n_calls = k + 1
               /\ entities = SetToBag({JdwpJavaVirtualMachine, HeldThread, held,
                                        JdwpLocation(location)})
               /\ last = LastOf(c, frame, e, reply)
               /\ ret = LocalResult("location", held)
               /\ cur = CallOf("line_number", JdwpLocation(location), k + 1,
                               Len(sent), TRUE)
               /\ out = sent \o RequestFrame(k + 1, Commands["line_table"][1],
                                             Commands["line_table"][2], cur.data)
    /\ inp \in LineReplies(cur.id)

NextLine == Return

SpecLine == InitLine /\ [][NextLine]_vars

----------------------------------------------------------------------------
\* The codec alone: a value of a wire type that has a Serialize and a
\* Deserialize impl is encoded into a buffer, and the buffer is decoded.

CodecTypes == {"u8", "u16", "u32", "i32", "u64", "String"}

\* "a", U+00E9 and U+20AC in UTF-8.
StrChars == {<<97>>, <<195, 169>>, <<226, 130, 172>>}
Strings == {Concat(cs) : cs \in UNION {[1..k -> StrChars] : k \in 0..MaxStrChars}}

\* Values of each type; those of u32 and u64 stay below 2^31.
ValuesOf(T) ==
    CASE T = "u8" -> 0..255
      [] T = "u16" -> {0, 1, 255, 256, 258, 65535}
      [] T = "u32" -> {0, 1, 65536, 16909060, 2147483647}
      [] T = "i32" -> {-2147483647 - 1, -2, -1, 0, 1, 16909060, 2147483647}
      [] T = "u64" -> {0, 1, 16909060, 2147483647}
      [] T = "String" -> Strings

\* T::serialize.
Ser(T, x) ==
    CASE T = "u8" -> Ser_u8(x)
      [] T = "u16" -> Ser_u16(x)
      [] T = "u32" -> Ser_u32(x)
      [] T = "i32" -> Ser_i32(x)
      [] T = "u64" -> Ser_u64(x)
      [] T = "String" -> Ser_str(x)

InitCodec ==
    /\ phase = "Disconnected"
    /\ overflow_checks \in BOOLEAN
    /\ out = <<>>
    /\ inp = <<>>
    /\ peer = "open"
    /\ srv_pending = <<>>
    /\ next_id = 0
    /\ conn = ZeroSizes
    /\ cur = NoCall
    /\ last = NoExec
    /\ ret = NoRet
    /\ hs_buf = <<>>
    /\ n_calls = 0
    /\ entities = EmptyBag
    /\ \E T \in CodecTypes : \E x \in ValuesOf(T) :
           codec = [NoCodec EXCEPT !.type = T, !.step = "value", !.x = x]

\* serialize writes the value into an empty buffer.
Encode ==
    /\ codec.step = "value"
    /\ codec' = [codec EXCEPT !.step = "encoded",
                              !.bytes = Ser(codec.type, codec.x)]
    /\ UNCHANGED <<phase, overflow_checks, out, inp, peer, srv_pending, next_id,
                   conn, cur, last, ret, hs_buf, n_calls, entities>>

\* deserialize reads a value of the same type from a cursor on the buffer.
Decode ==
    /\ codec.step = "encoded"
    /\ LET d == De(codec.type, codec.bytes)
       IN  codec' = [codec EXCEPT !.step = "decoded", !.st = d.st,
                                  !.y = d.val, !.rest = d.rest]
    /\ UNCHANGED <<phase, overflow_checks, out, inp, peer, srv_pending, next_id,
                   conn, cur, last, ret, hs_buf, n_calls, entities>>

NextCodec == Encode \/ Decode

SpecCodec == InitCodec /\ [][NextCodec]_vars

----------------------------------------------------------------------------
\* A connection that has made nearly 2^32 calls: the counter is at one of
\* its last two values.  `out` starts empty here: it holds the bytes written
\* from this state on.

LateIds == {-2, -1}

InitWrap ==
    /\ phase = "Ready"
    /\ overflow_checks \in BOOLEAN
    /\ out = <<>>
    /\ inp = <<>>
    /\ peer = "open"
    /\ srv_pending = <<>>
    /\ conn = StoredSizes(De_IdSizesReply(EightByteSizes).val)
    /\ cur = NoCall
    /\ hs_buf = <<>>
    /\ n_calls = 0
    /\ entities = SetToBag({JdwpJavaVirtualMachine})
    /\ codec = NoCodec
    /\ next_id \in LateIds
    /\ LET c == CallOf("resume", JdwpJavaVirtualMachine, next_id - 1, 0, TRUE)
           frame == ReplyFrame(HeaderSize, c.id, 128, 0, <<>>)
           e == ReadReply(frame, overflow_checks)
           reply == CommandReply(c.cmd, e)
       IN  /\ last = LastOf(c, frame, e, reply)
           /\ ret = ResultOf(c, reply)

NextWrap ==
    \/ \E op \in Ops :
           n_calls < MaxLateCalls /\ Invoke(op, JdwpJavaVirtualMachine)
    \/ ServerAnswers
    \/ Return

SpecWrap == InitWrap /\ [][NextWrap]_vars

----------------------------------------------------------------------------
\* The decoders alone, on a cursor that holds more than the value: the
\* encoding of a value of a wire type, followed by the bytes of the fields
\* after it.

DecodedTypes ==
    CodecTypes \cup {"i64", "TypeTag", "Vec<u64>", "Vec<Method>", "Frame"}

\* Well-formed encodings of the values of each type.
Wires(T) ==
    CASE T \in CodecTypes -> {Ser(T, x) : x \in ValuesOf(T)}
      [] T = "i64" -> {BigEndian(v, 8) : v \in {-1, 0, 258}}
      [] T = "TypeTag" -> {<<1>>, <<2>>, <<3>>}
      [] T = "Vec<u64>" ->
             {VecPayload(k, [i \in 1..k |-> BigEndian(4 + i, 8)]) : k \in 0..2}
                 \cup {VecPayload(-1, <<>>)}
      [] T = "Vec<Method>" ->
             {MethodsPayload(Len(ms), ms) : ms \in MethodLists}
      [] T = "Frame" ->
             {FramePayload(f, LocationPayload(t, 3, 7, 5)) :
                  f \in {1, 2}, t \in {1, 2, 3}}

\* The bytes after the value.
Following == {<<>>, <<7>>, <<0, 0, 0, 1, 9>>}

InitDecode ==
    /\ phase = "Disconnected"
    /\ overflow_checks \in BOOLEAN
    /\ out = <<>>
    /\ inp = <<>>
    /\ peer = "open"
    /\ srv_pending = <<>>
    /\ next_id = 0
    /\ conn = ZeroSizes
    /\ cur = NoCall
    /\ last = NoExec
    /\ ret = NoRet
    /\ hs_buf = <<>>
    /\ n_calls = 0
    /\ entities = EmptyBag
    /\ \E T \in DecodedTypes : \E w \in Wires(T) : \E f \in Following :
           codec = [NoCodec EXCEPT !.type = T, !.step = "encoded",
                                   !.bytes = w \o f]

NextDecode == Decode

SpecDecode == InitDecode /\ [][NextDecode]_vars

----------------------------------------------------------------------------
\* new is about to read the reply of IdSizes, which reports one of several
\* sets of widths; the operations that make entities follow on the
\* connection it returns.

NegotiatedSizes == {<<8, 8, 8, 8, 8>>, <<1, 2, 3, 4, 5>>, <<4, 4, 4, 4, 4>>}

InitSizes ==
    /\ phase = "Negotiating"
    /\ overflow_checks \in BOOLEAN
    /\ out = HandshakeToken
                 \o RequestFrame(0, Commands["id_sizes"][1],
                                 Commands["id_sizes"][2], <<>>)
    /\ peer = "open"
    /\ srv_pending = <<>>
    /\ next_id = 1
    /\ conn = ZeroSizes
    /\ cur = [NoCall EXCEPT !.cmd = "id_sizes", !.op = "new",
                            !.start = Len(HandshakeToken), !.replied = TRUE]
    /\ last = NoExec
    /\ ret = NoRet
    /\ hs_buf = HandshakeToken
    /\ n_calls = 0
    /\ entities = EmptyBag
    /\ codec = NoCodec
    /\ \E s \in NegotiatedSizes :
           inp = ReplyFrame(HeaderSize + 20, 0, 128, 0, IdSizesPayload(s))

NextSizes ==
    \/ IdSizesReturn
    \/ NewVirtualMachine
    \/ \E e \in BagToSet(entities) : \E op \in MakerOps : InvokeOn(e, op)
    \/ ServerAnswers
    \/ Return

SpecSizes == InitSizes /\ [][NextSizes]_vars

----------------------------------------------------------------------------
\* The accessors of every kind of entity: the caller holds one entity of
\* each kind, obtained by all_threads, frames, location, method,
\* declaring_type and fields, and calls the operations of each, with and
\* without a request.

HeldField == JdwpField(1, 3, Str_x)

\* The calls that returned before: <<operation, entity, reply payload>>.
AccessPrior ==
    <<<<"all_threads", JdwpJavaVirtualMachine, VecPayload(1, <<BigEndian(5, 8)>>)>>,
      <<"frames", HeldThread,
        VecPayload(1, <<FramePayload(1, LocationPayload(1, 3, 7, 5))>>)>>,
      <<"fields", JdwpReferenceType(3),
        VecPayload(1, <<MemberPayload(1, Str_x, Str_I, 0)>>)>>>>

AccessEntities ==
    {JdwpJavaVirtualMachine, HeldThread, HeldFrame, JdwpLocation(HeldLocation),
     JdwpMethod(7, 3), JdwpReferenceType(3), HeldField}

\* The operations that call a command function.
RemoteOps ==
    {"all_threads", "thread_name", "frames", "reference_type", "line_number",
     "name", "fields", "method_name"}

InitAccess ==
    /\ phase = "Ready"
    /\ overflow_checks \in BOOLEAN
    /\ inp = <<>>
    /\ peer = "open"
    /\ srv_pending = <<>>
    /\ conn = StoredSizes(De_IdSizesReply(EightByteSizes).val)
    /\ hs_buf = <<>>
    /\ codec = NoCodec
    /\ cur = NoCall
    /\ entities = SetToBag(AccessEntities)
    /\ LET k == Len(AccessPrior)
           new == HandshakeToken
                      \o RequestFrame(0, Commands["id_sizes"][1],
                                      Commands["id_sizes"][2], <<>>)
           before == new \o PriorFrames(Take(AccessPrior, k - 1), 1)
           c == CallOf(AccessPrior[k][1], AccessPrior[k][2], k, Len(before), TRUE)
           frame == ReplyFrame(HeaderSize + Len(AccessPrior[k][3]), k, 128, 0,
                               AccessPrior[k][3])
           e == ReadReply(frame, overflow_checks)
           reply == CommandReply(c.cmd, e)
       IN  /\ next_id = k + 1
           /\ n_calls = k
           /\ out = new \o PriorFrames(AccessPrior, 1)
           /\ last = LastOf(c, frame, e, reply)
           /\ ret = ResultOf(c, reply)

\* An operation that calls a command function is invoked on a held entity.
Access(e, op) ==
    /\ KindOf[op] = e.kind
    /\ n_calls < Len(AccessPrior) + MaxAccesses
    /\ Invoke(op, e)

\* An accessor without a request is called on a held entity.
LocalAccess(e, op) ==
    /\ BagCardinality(entities) < Cardinality(AccessEntities) + MaxAccesses
    /\ Accessor(e, op)

\* The server answers the outstanding request with the longest of the
\* well-formed replies of the command.
ServerAnswersOk ==
    /\ phase = "Ready"
    /\ peer = "open"
    /\ cur # NoCall /\ ~cur.replied
    /\ LET p == CHOOSE p \in Payloads(cur.cmd) :
                    \A q \in Payloads(cur.cmd) : Len(q) <= Len(p)
       IN  inp' = inp \o ReplyFrame(HeaderSize + Len(p), cur.id, 128, 0, p)
    /\ cur' = [cur EXCEPT !.replied = TRUE]
    /\ UNCHANGED <<phase, overflow_checks, out, peer, srv_pending, next_id, conn,
                   last, ret, hs_buf, n_calls, entities, codec>>

NextAccess ==
    \/ \E e \in AccessEntities : \E op \in RemoteOps : Access(e, op)
    \/ \E e \in AccessEntities : \E op \in DOMAIN LocalKindOf : LocalAccess(e, op)
    \/ ServerAnswersOk
    \/ Return

SpecAccess == InitAccess /\ [][NextAccess]_vars

----------------------------------------------------------------------------
\* Properties.

\* The correlation ids of the request frames in the bytes `bs`, in order.
RECURSIVE FrameIds(_)
FrameIds(bs) ==
    IF Len(bs) < HeaderSize \/ Unsigned(Take(bs, 4)) < HeaderSize THEN <<>>
    ELSE <<Unsigned(SubSeq(bs, 5, 8))>> \o FrameIds(Drop(bs, Unsigned(Take(bs, 4))))

RequestIds == FrameIds(Drop(out, Len(HandshakeToken)))

\* C1: the request frames on the stream carry correlation ids that start
\* at 0 (the IdSizes request of new) and strictly increase from one frame
\* to the next.
C1_IdsIncrease ==
    /\ RequestIds # <<>> => RequestIds[1] = 0
    /\ \A i \in 1..(Len(RequestIds) - 1) : RequestIds[i + 1] > RequestIds[i]

C1_Witness == Len(RequestIds) = 3 /\ RequestIds[3] = 2

\* C2: when execute_cmd has read a reply header whose error code is not 0,
\* it returns an error carrying that code and no payload, and the command
\* function returns without running the response decoder.
C2_ErrorCodeNoDecode ==
    (/\ last.st # "None"
     /\ Len(last.consumed) >= HeaderSize
     /\ Unsigned(SubSeq(last.consumed, 10, 11)) # 0)
    => /\ last.st = "Err"
       /\ last.kind = "ErrorCode"
       /\ last.code = Unsigned(SubSeq(last.consumed, 10, 11))
       /\ last.buf = <<>>
       /\ ~last.decoded
       /\ last.cmd \in Ops \cup DOMAIN CommandArgs =>
              (ret.op = last.cmd /\ ret.st = "Err" /\ ret.val = <<>>)

C2_Witness ==
    /\ last.cmd = "version"
    /\ last.consumed = ReplyFrame(HeaderSize, last.req_id, 128, 35, <<>>)
    /\ last.code = 35
    /\ ret.op = "version" /\ ret.st = "Err"

\* C3: execute_cmd returns Ok only for a reply frame whose id equals the id
\* of the request it wrote.
C3_ReplyIdMatches ==
    last.st = "Ok" => last.reply_id = last.req_id

\* C4: new returns a connection only if the bytes read back after the
\* handshake was written are exactly the 14-byte token.
C4_HandshakeChecked ==
    [][(phase = "Negotiating" /\ phase' = "Ready") => hs_buf = HandshakeToken]_vars

\* C5: at most one request is outstanding: the client writes to the stream
\* only while no earlier request waits for its reply, and an outstanding
\* request has exactly one frame on the stream after the bytes written
\* before it.
C5_OneOutstanding ==
    [][/\ out' # out => cur = NoCall
       /\ cur' # NoCall =>
              Len(out') = cur'.start + HeaderSize + Len(cur'.data)]_vars

C5_Witness == n_calls = 2 /\ cur # NoCall /\ cur.id = 2 /\ last.req_id = 1

\* C6: the connection moves Disconnected -> Handshaking -> Negotiating ->
\* Ready -> Closed only (or ends in Failed or Aborted); it becomes Ready
\* only when the handshake read and the IdSizes request succeeded; before
\* it is Ready nothing but the handshake and the IdSizes request is written.
PhaseSteps ==
    {<<"Disconnected", "Handshaking">>, <<"Disconnected", "Failed">>,
     <<"Handshaking", "Negotiating">>, <<"Handshaking", "Failed">>,
     <<"Negotiating", "Ready">>, <<"Negotiating", "Failed">>,
     <<"Negotiating", "Aborted">>, <<"Ready", "Closed">>, <<"Ready", "Aborted">>}

NewBytes ==
    HandshakeToken \o <<0, 0, 0, 11, 0, 0, 0, 0, 0, 1, 7>>

C6_StateMachine ==
    [][/\ phase' # phase => <<phase, phase'>> \in PhaseSteps
       /\ (phase = "Handshaking" /\ phase' = "Negotiating") => peer # "reset"
       /\ (phase = "Negotiating" /\ phase' = "Ready") =>
              /\ last'.cmd = "id_sizes" /\ last'.st = "Ok" /\ last'.decoded
              /\ Len(last'.buf) >= 20
       /\ phase \in {"Disconnected", "Handshaking", "Negotiating"} =>
              out' = Take(NewBytes, Len(out'))
       /\ out' # out =>
              phase \in {"Disconnected", "Handshaking", "Negotiating", "Ready"}]_vars

C6_Witness == phase = "Closed" /\ n_calls = 2

\* C7: the first request frame of a connection is VirtualMachine.IdSizes
\* (set 1, command 7, no payload), written once the handshake read has
\* returned and before new returns; the widths the returned connection
\* stores are the five i32 of the reply in the order field, method, object,
\* reference type, frame.
C7_IdSizesFirst ==
    /\ phase \in {"Disconnected", "Handshaking"} =>
           out = Take(HandshakeToken, Len(out))
    /\ phase \in {"Negotiating", "Ready", "Closed", "Aborted"} =>
           Take(out, Len(NewBytes)) = NewBytes
    /\ (phase = "Ready" /\ last.cmd = "id_sizes") =>
           /\ conn.field_id_size = Signed(SubSeq(last.buf, 1, 4))
           /\ conn.method_id_size = Signed(SubSeq(last.buf, 5, 8))
           /\ conn.object_id_size = Signed(SubSeq(last.buf, 9, 12))
           /\ conn.reference_type_id_size = Signed(SubSeq(last.buf, 13, 16))
           /\ conn.frame_id_size = Signed(SubSeq(last.buf, 17, 20))

C7_Witness ==
    /\ phase = "Ready"
    /\ last.cmd = "id_sizes"
    /\ last.buf = IdSizesPayload(<<1, 2, 3, 4, 5>>)
    /\ conn.field_id_size = 1 /\ conn.method_id_size = 2
    /\ conn.frame_id_size = 5

\* C8: the bytes execute_cmd writes for set s, command c and payload p are
\* the big-endian length len(p) + 11, the big-endian id, a zero flags byte,
\* s, c and p, and nothing more is written until the reply is read.
WrittenFrame == Drop(out, cur.start)

C8_RequestBytes ==
    cur # NoCall =>
        /\ Len(WrittenFrame) = Len(cur.data) + 11
        /\ Unsigned(SubSeq(WrittenFrame, 1, 4)) = Len(cur.data) + 11
        /\ Unsigned(SubSeq(WrittenFrame, 5, 8)) = cur.id
        /\ WrittenFrame[9] = 0
        /\ WrittenFrame[10] = Commands[cur.cmd][1]
        /\ WrittenFrame[11] = Commands[cur.cmd][2]
        /\ SubSeq(WrittenFrame, 12, Len(WrittenFrame)) = cur.data

C8_Witness ==
    /\ cur.cmd = "exit"
    /\ WrittenFrame = <<0, 0, 0, 15, 0, 0, 0, 2, 0, 1, 10, 255, 255, 255, 255>>

\* The line table of the reply the last call read, as the server sent it.
LastTable == De_LineTableReply(last.buf).val

\* The entries of a table at or before a byte-code index.
Applicable(t, idx) ==
    {i \in 1..Len(t.lines) : t.lines[i].line_code_index <= idx}

\* The entry with the greatest code index among `is`.
Greatest(t, is) ==
    CHOOSE i \in is : \A j \in is :
        t.lines[j].line_code_index <= t.lines[i].line_code_index

LineNumberReturned ==
    /\ ret.op = "line_number"
    /\ last.cmd = "line_table"
    /\ last.st = "Ok"
    /\ last.reply_st = "Ok"

\* C9: for a table that is not a native method's and has an entry at or
\* before the location's byte-code index, line_number returns the line of
\* the entry with the greatest code index at or before it, whatever the
\* order of the entries.
C9_GreatestApplicable ==
    (/\ LineNumberReturned
     /\ LastTable.start # -1 /\ LastTable.end # -1
     /\ Applicable(LastTable, last.location_idx) # {})
    => ret = Ret("line_number", "Ok",
                 <<LastTable.lines[Greatest(LastTable,
                       Applicable(LastTable, last.location_idx))].line_number>>)

\* C10: line_number returns Ok(None) whenever the reply has start = -1 or
\* end = -1, whatever its list of entries holds.
C10_NativeBounds ==
    (/\ LineNumberReturned
     /\ LastTable.start = -1 \/ LastTable.end = -1)
    => ret = Ret("line_number", "Ok", <<>>)

C10_Witness ==
    /\ LineNumberReturned
    /\ LastTable.start = 0 /\ LastTable.end = -1
    /\ Len(LastTable.lines) = 2
    /\ ret = Ret("line_number", "Ok", <<>>)

\* The last public operation was line_number and its line_table command
\* function returned an error.
LineTableFailed ==
    /\ ret.op = "line_number"
    /\ last.cmd = "line_table"
    /\ last.reply_st = "Err"

\* The error of the last call is the NATIVE_METHOD error code of a reply.
NativeMethodError ==
    /\ last.kind = "ErrorCode"
    /\ last.code = 511
    /\ Unsigned(SubSeq(last.consumed, 10, 11)) = 511

\* C11: when the reply to the line-table request carries the native-method
\* error code, line_number returns Ok(None) and not an error.
C11_NativeErrorIsNone ==
    (LineTableFailed /\ NativeMethodError)
    => ret = Ret("line_number", "Ok", <<>>)

C11_Witness ==
    /\ LineTableFailed /\ NativeMethodError
    /\ last.consumed = ReplyFrame(HeaderSize, last.req_id, 128, 511, <<>>)
    /\ ret = Ret("line_number", "Ok", <<>>)

\* C12: a failure of the line-table request other than the native-method
\* error code (another error code, an I/O failure, a reply body that does
\* not decode) makes line_number return an error.
C12_OtherFailuresAreErrors ==
    (LineTableFailed /\ ~NativeMethodError) => ret.st = "Err"

\* The last public operation `op` returned after its command function
\* `cmd` had received a reply without error code.
Replied(op, cmd) ==
    /\ ret.op = op
    /\ last.cmd = cmd
    /\ last.st = "Ok"

\* The signature the server sent in the last reply.
LastSignature == Drop(last.buf, 4)

\* C13: for a signature "L" body ";" of a signature reply,
\* ReferenceType.name returns body with every '/' replaced by '.' and
\* nothing else removed.
C13_NameOfSignature ==
    (/\ Replied("name", "signature")
     /\ last.buf = StringPayload(LastSignature)
     /\ Len(LastSignature) >= 2
     /\ LastSignature[1] = 76 /\ LastSignature[Len(LastSignature)] = 59)
    => ret = Ret("name", "Ok",
                 <<[i \in 1..(Len(LastSignature) - 2) |->
                       IF LastSignature[i + 1] = 47 THEN 46
                       ELSE LastSignature[i + 1]]>>)

\* C14: a reply whose sequence has a negative count makes the command
\* function return an error.
C14_NegativeCountFails ==
    (/\ last.cmd \in {"methods", "frames"}
     /\ last.st = "Ok"
     /\ Len(last.buf) >= 4
     /\ Signed(Take(last.buf, 4)) < 0)
    => last.reply_st = "Err"

\* The number of bytes of the encoding of an integer type.
WidthOf ==
    [u8 |-> 1, u16 |-> 2, u32 |-> 4, i32 |-> 4, u64 |-> 8]

\* C15: decoding the encoding of a value of u8, u16, u32, i32, u64 or of a
\* string gives the value back and leaves no byte unread; an integer is
\* encoded in as many bytes as its type is wide, most significant byte
\* first, and a string as its UTF-8 bytes after their number as a
\* big-endian u32.
C15_RoundTrip ==
    /\ codec.step = "decoded" =>
           /\ codec.st = "Ok"
           /\ codec.y = codec.x
           /\ codec.rest = <<>>
    /\ (codec.step \in {"encoded", "decoded"} /\ codec.type # "String") =>
           /\ Len(codec.bytes) = WidthOf[codec.type]
           /\ codec.x \in 0..255 =>
                  /\ codec.bytes[Len(codec.bytes)] = codec.x
                  /\ \A i \in 1..(Len(codec.bytes) - 1) : codec.bytes[i] = 0
           /\ codec.x = 258 => codec.bytes = <<1, 2>>
           /\ codec.x = 65535 => codec.bytes = <<255, 255>>
           /\ codec.x = 16909060 =>
                  SubSeq(codec.bytes, Len(codec.bytes) - 3, Len(codec.bytes))
                      = <<1, 2, 3, 4>>
           /\ codec.x = -2 => codec.bytes = <<255, 255, 255, 254>>
           /\ codec.x = -2147483647 - 1 => codec.bytes = <<128, 0, 0, 0>>
           /\ codec.x = 2147483647 =>
                  SubSeq(codec.bytes, Len(codec.bytes) - 3, Len(codec.bytes))
                      = <<127, 255, 255, 255>>
    /\ (codec.step \in {"encoded", "decoded"} /\ codec.type = "String") =>
           /\ Take(codec.bytes, 4) = <<0, 0, 0, Len(codec.x)>>
           /\ Drop(codec.bytes, 4) = codec.x

C15_Witness ==
    /\ codec.step = "decoded"
    /\ codec.type = "String"
    /\ codec.x = <<>>
    /\ codec.bytes = <<0, 0, 0, 0>>
    /\ codec.st = "Ok" /\ codec.y = <<>>

\* C16: a reply payload that is a proper prefix of a well-formed payload of
\* the command makes the command function, and the operation that called
\* it, return an error.
C16_TruncatedFails ==
    (/\ last.cmd \in {"signature", "methods", "reference_type", "frames"}
     /\ last.st = "Ok"
     /\ last.buf \in TruncatedPayloads(last.cmd))
    => /\ last.decoded
       /\ last.reply_st = "Err"
       /\ ret = Ret(ret.op, "Err", <<>>)

C16_Witness ==
    /\ Replied("method_name", "methods")
    /\ last.buf = Take(MethodsPayload(2, <<<<8, Str_a>>, <<7, Str_run>>>>), 40)
    /\ last.reply_st = "Err"
    /\ ret = Ret("method_name", "Err", <<>>)

\* C17: the type tag byte of a reference_type reply and of the location of
\* a frame decodes to Class for 1, Interface for 2 and Array for 3; any
\* other byte makes the command function and the operation return an
\* error.
TagByte ==
    IF last.cmd = "reference_type" THEN last.buf[1] ELSE last.buf[13]

C17_TypeTag ==
    (/\ \/ Replied("reference_type", "reference_type") /\ Len(last.buf) = 9
        \/ Replied("frames", "frames") /\ Len(last.buf) = 37
     /\ last.buf \notin TruncatedPayloads(last.cmd))
    => IF TagByte \in {1, 2, 3}
       THEN /\ last.reply_st = "Ok"
            /\ ret.st = "Ok"
            /\ last.cmd = "reference_type" =>
                   Deserialize(last.cmd, last.buf).val.type_tag
                       = <<"Class", "Interface", "Array">>[TagByte]
            /\ last.cmd = "frames" =>
                   ret.val[1][1].location.type_tag
                       = <<"Class", "Interface", "Array">>[TagByte]
       ELSE /\ last.reply_st = "Err"
            /\ ret = Ret(ret.op, "Err", <<>>)

C17_Witness ==
    /\ Replied("frames", "frames")
    /\ Len(last.buf) = 37
    /\ TagByte = 4
    /\ ret = Ret("frames", "Err", <<>>)

\* The list of methods the server sent in the last reply.
LastMethods == Deserialize("methods", last.buf).val.methods

\* C18: Method.name writes the methods request (set 2, command 5) for the
\* declaring class and returns the name of an entry of the reply whose
\* method id is the method's; when the reply has no such entry it returns
\* an error.
C18_MethodName ==
    /\ cur.op = "method_name" =>
           Drop(out, cur.start)
               = Ser_u32(19) \o Ser_u32(cur.id) \o <<0, 2, 5>>
                     \o Ser_u64(cur.recv.class_id)
    /\ (Replied("method_name", "methods") /\ last.reply_st = "Ok") =>
           IF \E i \in DOMAIN LastMethods :
                  LastMethods[i].method_id = last.recv.id
           THEN /\ ret.st = "Ok"
                /\ \E i \in DOMAIN LastMethods :
                       /\ LastMethods[i].method_id = last.recv.id
                       /\ LastMethods[i].name = ret.val[1]
           ELSE ret = Ret("method_name", "Err", <<>>)

C18_Witness ==
    /\ Replied("method_name", "methods")
    /\ last.buf = MethodsPayload(2, <<<<8, Str_a>>, <<7, Str_run>>>>)
    /\ last.recv = JdwpMethod(7, 3)
    /\ ret = Ret("method_name", "Ok", <<Str_run>>)

\* C19: the stream is open exactly as long as the virtual machine object or
\* an entity derived from it is alive: it is open while the bag of holders
\* is not empty and closed once the last holder was dropped, whatever the
\* order in which holders were made and dropped; a panic ends the program
\* and leaves no holder.
C19_OpenWhileHeld ==
    /\ phase \in {"Ready", "Closed", "Aborted"}
    /\ phase = "Ready" <=> entities # EmptyBag
    /\ phase = "Aborted" => ret.st = "Panic"

C19_Witness ==
    /\ phase = "Ready"
    /\ ~BagIn(JdwpJavaVirtualMachine, entities)
    /\ BagCardinality(entities) = 1
    /\ \E e \in BagToSet(entities) : e.kind = "field"

\* The bytes the step appends to the stream.
Appended == SubSeq(out', Len(out) + 1, Len(out'))

\* C20: nothing is retried.  A call of a command function takes one id and
\* writes at most one request frame, and less than the frame only when a
\* write fails and the call returns that error at once; the step in which a
\* call returns after its request was written writes nothing, takes no
\* other id, and reads one reply: the header alone when a read of it fails
\* or the error code is nonzero, else the header and the payload its length
\* field announces, or up to the end of the stream when the one read of the
\* payload fails.
C20_NoRetry ==
    [][/\ next_id' # next_id =>
              /\ next_id' = next_id + 1
              /\ \/ out' = out
                 \/ /\ Take(out', Len(out)) = out
                    /\ Len(Appended) >= 4
                    /\ Len(Appended) <= Unsigned(Take(Appended, 4))
                    /\ Len(Appended) >= 8 =>
                           Unsigned(SubSeq(Appended, 5, 8)) = next_id
                    /\ Len(Appended) < Unsigned(Take(Appended, 4)) =>
                           /\ cur' = NoCall
                           /\ last'.st = "Err" /\ last'.kind = "Io"
                           /\ last'.consumed = <<>>
       /\ out' # out => (next_id' # next_id \/ phase = "Disconnected")
       /\ last' # last =>
              /\ out' = out \/ (cur = NoCall /\ last'.consumed = <<>>)
              /\ cur' = NoCall
              /\ phase # "Handshaking" => inp = last'.consumed \o inp'
              /\ \/ Len(last'.consumed) <= HeaderSize
                 \/ Len(last'.consumed) = U32(Take(last'.consumed, 4))
                 \/ last'.st = "Err" /\ last'.kind = "Io" /\ inp' = <<>>
              /\ last'.kind = "ErrorCode" => Len(last'.consumed) = HeaderSize
              /\ cur # NoCall => next_id' = next_id]_vars

C20_Witness ==
    /\ n_calls = 2
    /\ cur = NoCall
    /\ last.kind = "ErrorCode" /\ last.code = 35
    /\ last.consumed = ReplyFrame(HeaderSize, 2, 128, 35, <<>>)
    /\ ret = Ret("resume", "Err", <<>>)
    /\ inp = <<>>
    /\ Len(RequestIds) = 3 /\ next_id = 3

\* A reply frame the call behind `l` received that is malformed: its length
\* field is below the header's 11 bytes, or its id differs from the
\* request's.
Malformed(l) ==
    /\ l.st # "None"
    /\ Len(l.consumed) >= 4
    /\ \/ U32Less(U32(Take(l.consumed, 4)), HeaderSize)
       \/ /\ Len(l.consumed) >= 8
          /\ U32(SubSeq(l.consumed, 5, 8)) # l.req_id

\* C21: a malformed reply frame is fatal to the connection: the call that
\* received it does not return Ok, and neither does the call after a call
\* that received one.
C21_MalformedIsFatal ==
    [][(last' # last /\ (Malformed(last') \/ Malformed(last)))
           => last'.st # "Ok"]_vars

\* C22 as stated: the correlation id never repeats, also when the counter
\* reaches 2^32 - 1: every request written takes a new id, and the counter
\* only moves to a value greater (as u32) than the one it had, so that no id
\* used before comes back.
C22_IdsNeverRepeat ==
    [][/\ (phase = "Ready" /\ out' # out) => next_id' # next_id
       /\ next_id' # next_id => U32Less(next_id, next_id')]_vars

\* C22 amended: the correlation id does not repeat within the first 2^32
\* calls.  Every request written takes a new id; below 2^32 - 1 the counter
\* moves to a greater value; the call that finds it at 2^32 - 1
\* panics in a build with overflow checks, without a write, and in a build
\* without them sends 2^32 - 1 and wraps the counter to 0, the id the
\* IdSizes request of new carried.
C22_IdsDistinctBelowMax ==
    [][/\ (phase = "Ready" /\ out' # out) => next_id' # next_id
       /\ (next_id' # next_id /\ next_id # -1) =>
              U32Less(next_id, next_id')
       /\ (next_id = -1 /\ n_calls' # n_calls) =>
              IF overflow_checks
              THEN phase' = "Aborted" /\ out' = out /\ next_id' = next_id
              ELSE /\ next_id' = 0
                   /\ peer # "reset" =>
                          SubSeq(Appended, 5, 8) = <<255, 255, 255, 255>>]_vars

C22_Witness ==
    /\ ~overflow_checks
    /\ n_calls = 3
    /\ next_id = 1
    /\ cur # NoCall /\ cur.id = 0
    /\ SubSeq(out, 5, 8) = <<255, 255, 255, 254>>

\* The reply at the head of the stream is a whole frame with a length field
\* of at least 11.
ReplyArrived ==
    /\ Len(inp) >= HeaderSize
    /\ U32(Take(inp, 4)) >= HeaderSize
    /\ Len(inp) >= U32(Take(inp, 4))

\* C23: suspend and resume keep no state in this layer.  On the virtual
\* machine object of a Ready connection with no call under way either may
\* be invoked whatever was called before; resume writes the request of set 1, command 9 and suspend
\* that of set 1, command 8, both without payload; each returns Ok when the
\* reply has error code 0; neither changes the stored widths or the state
\* of the connection, which stays Ready.
C23_SuspendResumeStateless ==
    [][/\ (/\ phase = "Ready" /\ cur = NoCall /\ n_calls < MaxCalls
           /\ BagIn(JdwpJavaVirtualMachine, entities)) =>
              /\ ENABLED Invoke("resume", JdwpJavaVirtualMachine)
              /\ ENABLED Invoke("suspend", JdwpJavaVirtualMachine)
       /\ (cur = NoCall /\ cur' # NoCall /\ cur'.op = "resume") =>
              /\ Len(Appended) = HeaderSize
              /\ SubSeq(Appended, 9, 11) = <<0, 1, 9>>
       /\ (cur = NoCall /\ cur' # NoCall /\ cur'.op = "suspend") =>
              /\ Len(Appended) = HeaderSize
              /\ SubSeq(Appended, 9, 11) = <<0, 1, 8>>
       /\ (cur.op \in {"suspend", "resume"} /\ cur' = NoCall
               /\ ReplyArrived /\ SubSeq(inp, 10, 11) = <<0, 0>>) =>
              ret' = Ret(cur.op, "Ok", <<>>)
       /\ (cur.op \in {"suspend", "resume"} \/ cur'.op \in {"suspend", "resume"}) =>
              /\ conn' = conn
              /\ (ReplyArrived \/ cur = NoCall) =>
                     phase' = "Ready"]_vars

\* resume has returned Ok twice and suspend was never called.
C23_Witness ==
    /\ phase = "Ready"
    /\ n_calls = 2
    /\ ret = Ret("resume", "Ok", <<>>)
    /\ Drop(out, Len(NewBytes))
           = <<0, 0, 0, 11, 0, 0, 0, 1, 0, 1, 9, 0, 0, 0, 11, 0, 0, 0, 2, 0, 1, 9>>

\* C24: when execute_cmd returns Ok it has read a reply frame with error
\* code 0 and a length field L of at least 11: it returns the L - 11 bytes
\* after the 11-byte header and has taken L bytes from the stream, so what
\* it leaves starts at the byte after the frame; and it returns Ok for every
\* such frame that has arrived whole.
C24_ExactPayload ==
    [][last' # last =>
           /\ last'.st = "Ok" =>
                  /\ Len(last'.consumed) >= HeaderSize
                  /\ U32(Take(last'.consumed, 4)) = Len(last'.consumed)
                  /\ SubSeq(last'.consumed, 10, 11) = <<0, 0>>
                  /\ last'.buf = Drop(last'.consumed, HeaderSize)
                  /\ inp = last'.consumed \o inp'
           /\ (ReplyArrived /\ SubSeq(inp, 10, 11) = <<0, 0>>) =>
                  /\ last'.st = "Ok"
                  /\ last'.consumed = Take(inp, U32(Take(inp, 4)))]_vars

\* Two calls have returned Ok, the second with the 20 bytes of a line table
\* that has no entries.
C24_Witness ==
    /\ n_calls = 2
    /\ cur = NoCall
    /\ last.st = "Ok" /\ last.req_id = 2
    /\ last.cmd = "classes_by_signature"
    /\ Len(last.buf) = 17
    /\ Len(last.consumed) = 28
    /\ inp = <<>>

\* The (set, command) pair the table of command_set! declares for the
\* command function behind each operation that makes entities.
DeclaredPair ==
    [all_threads |-> <<1, 4>>, frames |-> <<11, 6>>,
     reference_type |-> <<9, 1>>, fields |-> <<2, 4>>]

\* The i-th frame of a frames reply payload: 8 bytes of frame id, the tag
\* byte and three 8-byte fields of the location.
FrameAt(buf, i) ==
    LET b == Drop(buf, 4 + 33 * (i - 1))
    IN  [frame_id |-> Unsigned(SubSeq(b, 1, 8)),
         tag |-> b[9],
         class_id |-> Unsigned(SubSeq(b, 10, 17)),
         method_id |-> Unsigned(SubSeq(b, 18, 25)),
         location_idx |-> Unsigned(SubSeq(b, 26, 33))]

\* C25: a command function sends the pair declared for it and its arguments
\* encoded in declared order, and decodes the reply's fields in declared
\* order.  frames sends set 11, command 6 and 8 bytes of thread id, 4 bytes
\* of start 0 and 4 bytes of length -1; all_threads sends no payload,
\* reference_type the 8-byte thread id, fields the 8-byte class id.  The
\* stack frames frames returns carry, in order, the frame id and the
\* location fields of the reply's frames.
C25_DeclaredOrder ==
    /\ cur # NoCall =>
           /\ SubSeq(WrittenFrame, 10, 11) = DeclaredPair[cur.op]
           /\ Drop(WrittenFrame, HeaderSize) =
                  CASE cur.op = "frames" ->
                           BigEndian(cur.recv.id, 8) \o <<0, 0, 0, 0>>
                               \o <<255, 255, 255, 255>>
                    [] cur.op = "reference_type" -> BigEndian(cur.recv.id, 8)
                    [] cur.op = "fields" -> BigEndian(cur.recv.class_id, 8)
                    [] cur.op = "all_threads" -> <<>>
    /\ (ret.op = "frames" /\ ret.st = "Ok" /\ last.cmd = "frames") =>
           /\ Len(ret.val[1]) = Unsigned(Take(last.buf, 4))
           /\ \A i \in DOMAIN ret.val[1] :
                  LET f == FrameAt(last.buf, i)
                      s == ret.val[1][i]
                  IN  /\ s.kind = "frame"
                      /\ s.id = f.frame_id
                      /\ s.location.type_tag = TypeTags[f.tag]
                      /\ s.location.class_id = f.class_id
                      /\ s.location.method_id = f.method_id
                      /\ s.location.location_idx = f.location_idx

\* frames was called on thread 5 and returned the two frames of the reply.
C25_Witness ==
    /\ ret.op = "frames" /\ ret.st = "Ok" /\ last.cmd = "frames"
    /\ last.recv.id = 5
    /\ Len(ret.val[1]) = 2
    /\ ret.val[1][2].id = 2
    /\ ret.val[1][2].location =
           [type_tag |-> "Interface", class_id |-> 4, method_id |-> 8,
            location_idx |-> 0]
    /\ SubSeq(out, Len(out) - 18, Len(out)) =
           <<0, 11, 6, 0, 0, 0, 0, 0, 0, 0, 5, 0, 0, 0, 0, 255, 255, 255, 255>>

\* The size of `count` method entries at the head of `bs`: each is 8 bytes
\* of id, two strings behind their 4-byte lengths and 4 bytes of modifiers.
RECURSIVE MembersSize(_, _)
MembersSize(bs, count) ==
    IF count <= 0 THEN 0
    ELSE LET n1 == Unsigned(SubSeq(bs, 9, 12))
             n2 == Unsigned(SubSeq(bs, 13 + n1, 16 + n1))
             size == 8 + 4 + n1 + 4 + n2 + 4
         IN  size + MembersSize(Drop(bs, size), count - 1)

\* The number of bytes the value of type T at the head of `bs` declares.
DeclaredSize(T, bs) ==
    CASE T \in DOMAIN WidthOf -> WidthOf[T]
      [] T = "i64" -> 8
      [] T = "TypeTag" -> 1
      [] T = "String" -> 4 + Unsigned(Take(bs, 4))
      [] T = "Frame" -> 8 + 1 + 8 + 8 + 8
      [] T = "Vec<u64>" ->
             4 + (IF Signed(Take(bs, 4)) > 0 THEN 8 * Signed(Take(bs, 4)) ELSE 0)
      [] T = "Vec<Method>" -> 4 + MembersSize(Drop(bs, 4), Signed(Take(bs, 4)))

\* C26: a successful decode consumes exactly the bytes the value declares:
\* the width of a primitive, 4 + n for a string of n bytes, 4 + the sizes of
\* the elements for a sequence; the cursor is left at the byte after them,
\* where the next field starts.
C26_ExactConsumption ==
    codec.step = "decoded" =>
        /\ codec.st = "Ok"
        /\ codec.rest = Drop(codec.bytes, DeclaredSize(codec.type, codec.bytes))
        /\ Len(codec.bytes) - Len(codec.rest)
               = DeclaredSize(codec.type, codec.bytes)

\* A sequence of two methods was decoded and the 5 bytes after it are left.
C26_Witness ==
    /\ codec.step = "decoded"
    /\ codec.type = "Vec<Method>"
    /\ codec.st = "Ok"
    /\ Len(codec.y) = 2
    /\ codec.y[1].name = <<114, 117, 110>> /\ codec.y[2].name = <<97>>
    /\ Len(codec.bytes) = 4 + 26 + 24 + 5
    /\ codec.rest = <<0, 0, 0, 1, 9>>

\* C27: every identifier is written and read as 8 big-endian bytes whatever
\* widths IdSizes reported.  new returns the connection for widths other
\* than 8 and stores them; the thread id and the class id of a request are
\* its 8 payload bytes (frames adds start and length); the thread ids of an
\* all_threads reply, the type id of a reference_type reply and the id of
\* the first field of a fields reply are read from 8 bytes each.
C27_EightByteIds ==
    /\ phase \in {"Negotiating", "Ready"}
    /\ phase = "Ready" =>
           \E s \in NegotiatedSizes :
               /\ conn.field_id_size = s[1] /\ conn.method_id_size = s[2]
               /\ conn.object_id_size = s[3]
               /\ conn.reference_type_id_size = s[4]
               /\ conn.frame_id_size = s[5]
    /\ (cur # NoCall /\ cur.op \in {"frames", "reference_type"}) =>
           /\ Len(WrittenFrame) =
                  HeaderSize + 8 + (IF cur.op = "frames" THEN 8 ELSE 0)
           /\ SubSeq(WrittenFrame, 12, 19) = BigEndian(cur.recv.id, 8)
    /\ (cur # NoCall /\ cur.op = "fields") =>
           /\ Len(WrittenFrame) = HeaderSize + 8
           /\ SubSeq(WrittenFrame, 12, 19) = BigEndian(cur.recv.class_id, 8)
    /\ (ret.op = "all_threads" /\ ret.st = "Ok" /\ last.cmd = "all_threads") =>
           /\ Len(last.buf) = 4 + 8 * Len(ret.val[1])
           /\ \A i \in DOMAIN ret.val[1] :
                  ret.val[1][i].id
                      = Unsigned(SubSeq(last.buf, 8 * i - 3, 8 * i + 4))
    /\ (ret.op = "reference_type" /\ ret.st = "Ok"
            /\ last.cmd = "reference_type") =>
           /\ Len(last.buf) = 1 + 8
           /\ ret.val[1].class_id = Unsigned(SubSeq(last.buf, 2, 9))
    /\ (ret.op = "fields" /\ ret.st = "Ok" /\ last.cmd = "fields") =>
           (ret.val[1] # <<>> =>
                ret.val[1][1].id = Unsigned(SubSeq(last.buf, 5, 12)))

\* The server reported widths 1, 2, 3, 4, 5; reference_type was called on
\* thread 5 with an 8-byte id and returned the class with the 8-byte id 3.
C27_Witness ==
    /\ phase = "Ready"
    /\ conn.object_id_size = 3 /\ conn.reference_type_id_size = 4
    /\ ret.op = "reference_type" /\ ret.st = "Ok"
    /\ last.cmd = "reference_type"
    /\ ret.val[1].class_id = 3
    /\ SubSeq(out, Len(out) - 10, Len(out)) = <<0, 9, 1, 0, 0, 0, 0, 0, 0, 0, 5>>

\* The accessors that call no command function: Field.name, unique_id,
\* location, method and declaring_type, and with them can_be_modified and
\* get_value.
LocalOps == DOMAIN LocalKindOf

\* C28: entities cache nothing and fetch nothing they hold.  Every call of
\* all_threads, ThreadReference.name, frames, reference_type,
\* ReferenceType.name, fields, Method.name and line_number takes the next id
\* and writes one request frame, also when the same operation was called on
\* the same entity before; nothing else writes; Field.name, unique_id,
\* StackFrame.location, Location.method and Location.declaring_type (and the
\* other accessors without a command) return without a write and leave the
\* stream and the counter as they were.
C28_NoCache ==
    [][/\ n_calls' # n_calls =>
              /\ cur'.op \in
                     {"all_threads", "thread_name", "frames", "reference_type",
                      "line_number", "name", "fields", "method_name"}
              /\ next_id' = next_id + 1
              /\ Len(Appended) >= HeaderSize
              /\ Unsigned(Take(Appended, 4)) = Len(Appended)
              /\ Unsigned(SubSeq(Appended, 5, 8)) = next_id
              /\ SubSeq(Appended, 10, 11) = Commands[cur'.cmd]
       /\ out' # out => n_calls' = n_calls + 1
       /\ (cur = NoCall /\ cur' = NoCall /\ n_calls' = n_calls) =>
              /\ ret'.op \in LocalOps
              /\ out' = out
              /\ inp' = inp
              /\ next_id' = next_id]_vars

\* ThreadReference.name was called twice on thread 5: two request frames of
\* set 11, command 1 were written, and both calls returned the name.
C28_Witness ==
    /\ n_calls = Len(AccessPrior) + 2
    /\ cur = NoCall
    /\ ret.op = "thread_name" /\ ret.st = "Ok"
    /\ ret.val = <<<<109, 97, 105, 110>>>>
    /\ SubSeq(out, Len(out) - 37, Len(out)) =
           <<0, 0, 0, 19, 0, 0, 0, 4, 0, 11, 1, 0, 0, 0, 0, 0, 0, 0, 5,
             0, 0, 0, 19, 0, 0, 0, 5, 0, 11, 1, 0, 0, 0, 0, 0, 0, 0, 5>>

\* C29: a reply string whose declared bytes are not valid UTF-8 makes the
\* command function return an error: the operation returns that error and
\* the program goes on.
C29_InvalidUtf8IsError ==
    (/\ last.cmd = "signature"
     /\ last.st = "Ok"
     /\ \E g \in InvalidUtf8 : last.buf = <<0, 0, 0, Len(g)>> \o g)
    => /\ last.reply_st = "Err"
       /\ ret.op = "name" /\ ret.st = "Err"
       /\ phase = "Ready"

\* C30: the stream stays frame-aligned after an error reply: when
\* execute_cmd returns the error of a reply with a nonzero error code, it has
\* taken the whole frame from the stream, the bytes after the header that
\* the length field counts included, so that the next call reads its header
\* of a Ready connection at the first byte of the next frame.
C30_AlignedAfterError ==
    (/\ phase = "Ready"
     /\ last.kind = "ErrorCode"
     /\ U32(Take(last.consumed, 4)) >= HeaderSize)
    => Len(last.consumed) = U32(Take(last.consumed, 4))

\* The bytes of the server that had reached the client when the handshake
\* was read and since: those the read returned, then those still unread.
ServerSent == hs_buf \o inp

\* C31: the handshake consumes exactly the server's 14 handshake bytes,
\* however they are segmented: when the server's bytes begin with the
\* token, the read of the handshake has taken the token and nothing else,
\* and id_sizes parses its reply header from the first byte after it.
C31_HandshakeConsumesToken ==
    [][(/\ phase = "Negotiating" /\ phase' # "Negotiating"
        /\ Len(ServerSent) >= Len(HandshakeToken)
        /\ Take(ServerSent, Len(HandshakeToken)) = HandshakeToken)
       => /\ hs_buf = HandshakeToken
          /\ last'.consumed = Take(inp, Len(last'.consumed))]_vars

\* The reply bit 0x80 of a flags byte.
ReplyBit(flags) == (flags \div 128) % 2 = 1

\* C32: execute_cmd returns Ok(payload) only for a frame whose flags byte
\* has the reply bit set: the payload of a frame with flags 0x00 never
\* reaches the caller as the response to its request.
C32_OnlyRepliesAccepted ==
    (last.st = "Ok" /\ Len(last.consumed) >= HeaderSize)
    => /\ ReplyBit(last.flags)
       /\ ReplyBit(last.consumed[9])

\* C33: line_number never returns the line of an entry whose code index is
\* greater than the location's byte-code index: for a table that is not a
\* native method's and whose entries all lie after the byte-code index, the
\* result is not Some(line) for the line of any entry.
C33_NoLaterLine ==
    (/\ LineNumberReturned
     /\ LastTable.start # -1 /\ LastTable.end # -1
     /\ Applicable(LastTable, last.location_idx) = {})
    => ~(/\ ret.st = "Ok"
         /\ \E i \in 1..Len(LastTable.lines) :
                ret.val = <<LastTable.lines[i].line_number>>)

\* C34: line_number returns a result and does not abort on a reply whose
\* start and end are not -1 and whose list of line entries is empty: the
\* result is Ok(None) or an error, and the program goes on.
C34_EmptyTableReturns ==
    (/\ LineNumberReturned
     /\ LastTable.start # -1 /\ LastTable.end # -1
     /\ LastTable.lines = <<>>)
    => /\ ret \in {Ret("line_number", "Ok", <<>>),
                   Ret("line_number", "Err", <<>>)}
       /\ phase = "Ready"

\* The length field at the head of `bs` is less than the 11 bytes of a
\* header.
ShortLength(bs) ==
    Len(bs) >= 4 /\ U32Less(U32(Take(bs, 4)), HeaderSize)

\* C35: for a reply frame whose length field is less than 11, execute_cmd
\* returns an error: the call that took such a frame returned an error and
\* the program goes on, and a call that has the whole header of such a frame
\* on its stream returns an error without waiting for a payload of
\* (length - 11) wrapped bytes.
C35_ShortLengthIsError ==
    /\ (last.st # "None" /\ ShortLength(last.consumed))
       => (last.st = "Err" /\ phase # "Aborted")
    /\ (/\ phase \in {"Negotiating", "Ready"}
        /\ cur # NoCall
        /\ Len(inp) >= HeaderSize
        /\ ShortLength(inp))
       => ReadReply(inp, overflow_checks).st = "Err"

====
